---------------------------- MODULE Spec2Model ----------------------------
(***************************************************************************)
(* Model of the BoltDB server-entry repository (psiphon/dataStore_alt.go)  *)
(* and of the server-entry validation rule (psiphon/serverEntry.go).       *)
(*                                                                         *)
(* Strings that the code inspects byte by byte are modelled as tuples of   *)
(* byte codes (IP literals) or as tuples of hyphen-separated words         *)
(* (protocol and capability names).  Strings that the code only compares   *)
(* for equality are TLA+ strings.  An optional value (a nil pointer, a     *)
(* missing bucket key) is the empty tuple, a present value x is <<x>>.     *)
(***************************************************************************)
EXTENDS Integers, Sequences, FiniteSets, TLC

\* ------------------------------------------------------------------ bounds
\* Longest list handed to StoreServerEntries.
MaxBatch == 2
\* Largest TunnelPoolSize (shuffle head length) an iterator is configured with.
MaxHead == 2
\* Number of Store and Promote calls made while an iterator is in use (SpecIter).
MaxWrites == 3
\* Goroutines that call InitDataStore.
MaxCallers == 2
\* Lines of an encoded server entry list.
MaxLines == 3

\* -------------------------------------------------------- program constants
\* dataStore_alt.go:58 sets 100.  The model keeps the constant symbolic and
\* evaluates it at a small value so that the capped branch of
\* insertRankedServerEntry is exercised by short behaviours; no definition
\* below depends on the value other than through this name.
rankedServerEntryCount == 3

\* ----------------------------------------------------------- byte strings
Dot == 46
Digits == 48..57

\* "9.9.9.9", "10.1.1.1", "1.1.1.1": three well-formed IPv4 literals whose
\* byte order (1.1.1.1 < 10.1.1.1 < 9.9.9.9) differs from their numeric order.
IpA == <<57, 46, 57, 46, 57, 46, 57>>
IpB == <<49, 48, 46, 49, 46, 49, 46, 49>>
IpC == <<49, 46, 49, 46, 49, 46, 49>>
\* "1.1.1.256", "1.1.1", "1..1.1", "" : malformed literals.
IpOctetTooBig == <<49, 46, 49, 46, 49, 46, 50, 53, 54>>
IpThreeFields == <<49, 46, 49, 46, 49>>
IpEmptyField == <<49, 46, 46, 49, 46, 49>>
IpEmpty == <<>>

ValidIps == {IpA, IpB, IpC}
InvalidIps == {IpOctetTooBig, IpThreeFields, IpEmptyField, IpEmpty}

None == <<>>
Some(x) == <<x>>

\* Byte-wise comparison of keys, the order of a bolt bucket's cursor.
RECURSIVE BytesLess(_, _)
BytesLess(a, b) ==
    IF Len(b) = 0 THEN FALSE
    ELSE IF Len(a) = 0 THEN TRUE
    ELSE IF a[1] # b[1] THEN a[1] < b[1]
    ELSE BytesLess(Tail(a), Tail(b))

\* dtoi of package net: the decimal number starting at s[i] (1-based),
\* as <<value, index after the digits, ok>>; ok is FALSE when there is no digit.
RECURSIVE dtoiFrom(_, _, _)
dtoiFrom(s, i, n) ==
    IF i <= Len(s) /\ s[i] \in Digits /\ n < 16777215
    THEN dtoiFrom(s, i + 1, n * 10 + (s[i] - 48))
    ELSE <<n, i>>

dtoi(s, i) ==
    LET r == dtoiFrom(s, i, 0)
    IN  <<r[1], r[2], r[2] # i /\ r[1] < 16777215>>

\* parseIPv4 of package net: four decimal fields of value <= 255 separated by
\* dots, and nothing after them.  j counts the fields already parsed.
RECURSIVE parseIPv4From(_, _, _)
parseIPv4From(s, i, j) ==
    IF j = 4 THEN i = Len(s) + 1
    ELSE IF i > Len(s) THEN FALSE
    ELSE IF j > 0 /\ s[i] # Dot THEN FALSE
    ELSE LET r == dtoi(s, IF j > 0 THEN i + 1 ELSE i)
         IN  r[3] /\ r[1] <= 255 /\ parseIPv4From(s, r[2], j + 1)

\* net.ParseIP(s) # nil, for literals without a colon (IPv6 literals are not
\* among the inputs of the model): the literal must hold a dot and parse as IPv4.
ParseIP(s) ==
    /\ \E i \in 1..Len(s) : s[i] = Dot
    /\ parseIPv4From(s, 1, 0)

\* ---------------------------------------------------- protocols, capabilities
\* A protocol or capability name is the tuple of its hyphen-separated words.
TUNNEL_PROTOCOL_SSH == <<"SSH">>
TUNNEL_PROTOCOL_OBFUSCATED_SSH == <<"OSSH">>
TUNNEL_PROTOCOL_UNFRONTED_MEEK == <<"UNFRONTED", "MEEK", "OSSH">>
TUNNEL_PROTOCOL_FRONTED_MEEK == <<"FRONTED", "MEEK", "OSSH">>
NoProtocol == <<>>

CapSSH == <<"SSH">>
CapOSSH == <<"OSSH">>
CapFrontedMeek == <<"FRONTED", "MEEK">>
CapUnfrontedMeek == <<"UNFRONTED", "MEEK">>

\* strings.TrimSuffix(protocol, "-OSSH"): the suffix is present when the last
\* word is OSSH and a hyphen precedes it, that is, when it is not the only word.
TrimSuffixOSSH(protocol) ==
    IF Len(protocol) >= 2 /\ protocol[Len(protocol)] = "OSSH"
    THEN SubSeq(protocol, 1, Len(protocol) - 1)
    ELSE protocol

Contains(list, target) == \E i \in 1..Len(list) : list[i] = target

serverEntrySupportsProtocol(serverEntry, protocol) ==
    Contains(serverEntry.Capabilities, TrimSuffixOSSH(protocol))

\* ------------------------------------------------------------ server entries
ServerEntry(ip, region, caps, domain, addresses) ==
    [IpAddress |-> ip, Region |-> region, Capabilities |-> caps,
     MeekFrontingDomain |-> domain, MeekFrontingAddresses |-> addresses]

EntryA1 == ServerEntry(IpA, "US", <<CapSSH, CapFrontedMeek>>, "x.example.com", <<>>)
EntryA2 == ServerEntry(IpA, "US", <<CapSSH>>, "", <<>>)
EntryB1 == ServerEntry(IpB, "CA", <<CapFrontedMeek>>, "f.example.com", <<"a.example.com">>)
EntryC1 == ServerEntry(IpC, "", <<CapOSSH>>, "", <<>>)
EntryBad1 == ServerEntry(IpOctetTooBig, "US", <<CapSSH>>, "", <<>>)
EntryBad2 == ServerEntry(IpThreeFields, "CA", <<CapFrontedMeek>>, "", <<>>)

ValidEntries == {EntryA1, EntryA2, EntryB1, EntryC1}
InvalidEntries == {EntryBad1, EntryBad2}
AllEntries == ValidEntries \cup InvalidEntries

\* net.ParseIP on the literals of the model, computed once.
ParsedIPs == [s \in ValidIps \cup InvalidIps |-> ParseIP(s)]

\* ValidateServerEntry: nil error iff the IpAddress parses.
ValidateServerEntry(serverEntry) ==
    IF ParsedIPs[serverEntry.IpAddress] THEN "nil" ELSE "invalid IpAddress"

\* json.Marshal / json.Unmarshal of a ServerEntry: the object keyed by the
\* struct's json tags.
JsonMarshal(e) ==
    [ipAddress |-> e.IpAddress, region |-> e.Region, capabilities |-> e.Capabilities,
     meekFrontingDomain |-> e.MeekFrontingDomain,
     meekFrontingAddresses |-> e.MeekFrontingAddresses]

JsonUnmarshal(d) ==
    [IpAddress |-> d.ipAddress, Region |-> d.region, Capabilities |-> d.capabilities,
     MeekFrontingDomain |-> d.meekFrontingDomain,
     MeekFrontingAddresses |-> d.meekFrontingAddresses]

\* ------------------------------------------------------------------ buckets
\* A bucket is a function from its keys to their values.
BucketGet(bucket, key) ==
    IF key \in DOMAIN bucket THEN Some(bucket[key]) ELSE None

BucketPut(bucket, key, value) ==
    [k \in DOMAIN bucket \cup {key} |-> IF k = key THEN value ELSE bucket[k]]

EmptyBucket == [k \in {} |-> None]


\* ------------------------------------------------- encoded server entries
Space == 32

\* The value of a hexadecimal digit, -1 for any other byte.
HexValue(c) ==
    IF c \in 48..57 THEN c - 48
    ELSE IF c \in 97..102 THEN c - 87
    ELSE IF c \in 65..70 THEN c - 55
    ELSE 0 - 1

\* hex.DecodeString: the bytes (optional), nothing when the length is odd or
\* a digit is not hexadecimal.
hexDecodeString(s) ==
    IF Len(s) % 2 # 0 \/ \E i \in 1..Len(s) : HexValue(s[i]) < 0
    THEN None
    ELSE Some([k \in 1..(Len(s) \div 2) |->
                  16 * HexValue(s[2 * k - 1]) + HexValue(s[2 * k])])

\* bytes.SplitN(s, sep, n) for a one-byte separator and n > 0: at most n
\* fields, the last one the unsplit remainder.
RECURSIVE SplitN(_, _, _)
SplitN(s, sep, n) ==
    IF n > 1 /\ \E i \in 1..Len(s) : s[i] = sep
    THEN LET i == CHOOSE i \in 1..Len(s) : s[i] = sep /\ \A j \in 1..(i - 1) : s[j] # sep
         IN  <<SubSeq(s, 1, i - 1)>> \o SplitN(SubSeq(s, i + 1, Len(s)), sep, n - 1)
    ELSE <<s>>

\* The JSON texts of two server entries (the second with a space after each comma).
\* {"ipAddress":"9.9.9.9","region":"US","capabilities":["SSH","FRONTED-MEEK"],"meekFrontingDomain":"x.example.com","meekFrontingAddresses":[]}
JsonTextA1 ==
    <<123, 34, 105, 112, 65, 100, 100, 114, 101, 115, 115, 34, 58, 34, 57, 46,
      57, 46, 57, 46, 57, 34, 44, 34, 114, 101, 103, 105, 111, 110, 34, 58,
      34, 85, 83, 34, 44, 34, 99, 97, 112, 97, 98, 105, 108, 105, 116, 105,
      101, 115, 34, 58, 91, 34, 83, 83, 72, 34, 44, 34, 70, 82, 79, 78, 84,
      69, 68, 45, 77, 69, 69, 75, 34, 93, 44, 34, 109, 101, 101, 107, 70, 114,
      111, 110, 116, 105, 110, 103, 68, 111, 109, 97, 105, 110, 34, 58, 34,
      120, 46, 101, 120, 97, 109, 112, 108, 101, 46, 99, 111, 109, 34, 44, 34,
      109, 101, 101, 107, 70, 114, 111, 110, 116, 105, 110, 103, 65, 100, 100,
      114, 101, 115, 115, 101, 115, 34, 58, 91, 93, 125>>
\* {"ipAddress":"1.1.1.1", "region":"", "capabilities":["OSSH"], "meekFrontingDomain":"", "meekFrontingAddresses":[]}
JsonTextC1 ==
    <<123, 34, 105, 112, 65, 100, 100, 114, 101, 115, 115, 34, 58, 34, 49, 46,
      49, 46, 49, 46, 49, 34, 44, 32, 34, 114, 101, 103, 105, 111, 110, 34,
      58, 34, 34, 44, 32, 34, 99, 97, 112, 97, 98, 105, 108, 105, 116, 105,
      101, 115, 34, 58, 91, 34, 79, 83, 83, 72, 34, 93, 44, 32, 34, 109, 101,
      101, 107, 70, 114, 111, 110, 116, 105, 110, 103, 68, 111, 109, 97, 105,
      110, 34, 58, 34, 34, 44, 32, 34, 109, 101, 101, 107, 70, 114, 111, 110,
      116, 105, 110, 103, 65, 100, 100, 114, 101, 115, 115, 101, 115, 34, 58,
      91, 93, 125>>
\* hex of: "9.9.9.9 80 s c " followed by the JSON text of EntryA1
EncodedA1 ==
    <<51, 57, 50, 101, 51, 57, 50, 101, 51, 57, 50, 101, 51, 57, 50, 48, 51,
      56, 51, 48, 50, 48, 55, 51, 50, 48, 54, 51, 50, 48, 55, 98, 50, 50, 54,
      57, 55, 48, 52, 49, 54, 52, 54, 52, 55, 50, 54, 53, 55, 51, 55, 51, 50,
      50, 51, 97, 50, 50, 51, 57, 50, 101, 51, 57, 50, 101, 51, 57, 50, 101,
      51, 57, 50, 50, 50, 99, 50, 50, 55, 50, 54, 53, 54, 55, 54, 57, 54, 102,
      54, 101, 50, 50, 51, 97, 50, 50, 53, 53, 53, 51, 50, 50, 50, 99, 50, 50,
      54, 51, 54, 49, 55, 48, 54, 49, 54, 50, 54, 57, 54, 99, 54, 57, 55, 52,
      54, 57, 54, 53, 55, 51, 50, 50, 51, 97, 53, 98, 50, 50, 53, 51, 53, 51,
      52, 56, 50, 50, 50, 99, 50, 50, 52, 54, 53, 50, 52, 102, 52, 101, 53,
      52, 52, 53, 52, 52, 50, 100, 52, 100, 52, 53, 52, 53, 52, 98, 50, 50,
      53, 100, 50, 99, 50, 50, 54, 100, 54, 53, 54, 53, 54, 98, 52, 54, 55,
      50, 54, 102, 54, 101, 55, 52, 54, 57, 54, 101, 54, 55, 52, 52, 54, 102,
      54, 100, 54, 49, 54, 57, 54, 101, 50, 50, 51, 97, 50, 50, 55, 56, 50,
      101, 54, 53, 55, 56, 54, 49, 54, 100, 55, 48, 54, 99, 54, 53, 50, 101,
      54, 51, 54, 102, 54, 100, 50, 50, 50, 99, 50, 50, 54, 100, 54, 53, 54,
      53, 54, 98, 52, 54, 55, 50, 54, 102, 54, 101, 55, 52, 54, 57, 54, 101,
      54, 55, 52, 49, 54, 52, 54, 52, 55, 50, 54, 53, 55, 51, 55, 51, 54, 53,
      55, 51, 50, 50, 51, 97, 53, 98, 53, 100, 55, 100>>
\* hex of: "1.1.1.1 80 s c " followed by the JSON text of EntryC1
EncodedC1 ==
    <<51, 49, 50, 101, 51, 49, 50, 101, 51, 49, 50, 101, 51, 49, 50, 48, 51,
      56, 51, 48, 50, 48, 55, 51, 50, 48, 54, 51, 50, 48, 55, 98, 50, 50, 54,
      57, 55, 48, 52, 49, 54, 52, 54, 52, 55, 50, 54, 53, 55, 51, 55, 51, 50,
      50, 51, 97, 50, 50, 51, 49, 50, 101, 51, 49, 50, 101, 51, 49, 50, 101,
      51, 49, 50, 50, 50, 99, 50, 48, 50, 50, 55, 50, 54, 53, 54, 55, 54, 57,
      54, 102, 54, 101, 50, 50, 51, 97, 50, 50, 50, 50, 50, 99, 50, 48, 50,
      50, 54, 51, 54, 49, 55, 48, 54, 49, 54, 50, 54, 57, 54, 99, 54, 57, 55,
      52, 54, 57, 54, 53, 55, 51, 50, 50, 51, 97, 53, 98, 50, 50, 52, 102, 53,
      51, 53, 51, 52, 56, 50, 50, 53, 100, 50, 99, 50, 48, 50, 50, 54, 100,
      54, 53, 54, 53, 54, 98, 52, 54, 55, 50, 54, 102, 54, 101, 55, 52, 54,
      57, 54, 101, 54, 55, 52, 52, 54, 102, 54, 100, 54, 49, 54, 57, 54, 101,
      50, 50, 51, 97, 50, 50, 50, 50, 50, 99, 50, 48, 50, 50, 54, 100, 54, 53,
      54, 53, 54, 98, 52, 54, 55, 50, 54, 102, 54, 101, 55, 52, 54, 57, 54,
      101, 54, 55, 52, 49, 54, 52, 54, 52, 55, 50, 54, 53, 55, 51, 55, 51, 54,
      53, 55, 51, 50, 50, 51, 97, 53, 98, 53, 100, 55, 100>>
\* hex of: "0 0 0 {}" (four fields)
EncodedFourFields ==
    <<51, 48, 50, 48, 51, 48, 50, 48, 51, 48, 50, 48, 55, 98, 55, 100>>
\* hex of: "0 0 0 0 {" (five fields, truncated JSON)
EncodedBadJson ==
    <<51, 48, 50, 48, 51, 48, 50, 48, 51, 48, 50, 48, 51, 48, 50, 48, 55, 98>>
\* "3020302" (odd length) and "30zz" (not hexadecimal)
EncodedOddLength == <<51, 48, 50, 48, 51, 48, 50>>
EncodedNotHex == <<51, 48, 122, 122>>
\* {"ipAddress":"1.1.1.256","region":"US","capabilities":["SSH"],"meekFrontingDomain":"","meekFrontingAddresses":[]}
JsonTextBad1 ==
    <<123, 34, 105, 112, 65, 100, 100, 114, 101, 115, 115, 34, 58, 34, 49, 46,
      49, 46, 49, 46, 50, 53, 54, 34, 44, 34, 114, 101, 103, 105, 111, 110, 34,
      58, 34, 85, 83, 34, 44, 34, 99, 97, 112, 97, 98, 105, 108, 105, 116, 105,
      101, 115, 34, 58, 91, 34, 83, 83, 72, 34, 93, 44, 34, 109, 101, 101, 107,
      70, 114, 111, 110, 116, 105, 110, 103, 68, 111, 109, 97, 105, 110, 34, 58,
      34, 34, 44, 34, 109, 101, 101, 107, 70, 114, 111, 110, 116, 105, 110, 103,
      65, 100, 100, 114, 101, 115, 115, 101, 115, 34, 58, 91, 93, 125>>
\* hex of: "1.1.1.256 80 s c " followed by the JSON text of EntryBad1 (decodes, does not validate)
EncodedBad1 ==
    <<51, 49, 50, 101, 51, 49, 50, 101, 51, 49, 50, 101, 51, 50, 51, 53, 51, 54,
      50, 48, 51, 56, 51, 48, 50, 48, 55, 51, 50, 48, 54, 51, 50, 48, 55, 98,
      50, 50, 54, 57, 55, 48, 52, 49, 54, 52, 54, 52, 55, 50, 54, 53, 55, 51,
      55, 51, 50, 50, 51, 97, 50, 50, 51, 49, 50, 101, 51, 49, 50, 101, 51, 49,
      50, 101, 51, 50, 51, 53, 51, 54, 50, 50, 50, 99, 50, 50, 55, 50, 54, 53,
      54, 55, 54, 57, 54, 102, 54, 101, 50, 50, 51, 97, 50, 50, 53, 53, 53, 51,
      50, 50, 50, 99, 50, 50, 54, 51, 54, 49, 55, 48, 54, 49, 54, 50, 54, 57,
      54, 99, 54, 57, 55, 52, 54, 57, 54, 53, 55, 51, 50, 50, 51, 97, 53, 98,
      50, 50, 53, 51, 53, 51, 52, 56, 50, 50, 53, 100, 50, 99, 50, 50, 54, 100,
      54, 53, 54, 53, 54, 98, 52, 54, 55, 50, 54, 102, 54, 101, 55, 52, 54, 57,
      54, 101, 54, 55, 52, 52, 54, 102, 54, 100, 54, 49, 54, 57, 54, 101, 50,
      50, 51, 97, 50, 50, 50, 50, 50, 99, 50, 50, 54, 100, 54, 53, 54, 53, 54,
      98, 52, 54, 55, 50, 54, 102, 54, 101, 55, 52, 54, 57, 54, 101, 54, 55, 52,
      49, 54, 52, 54, 52, 55, 50, 54, 53, 55, 51, 55, 51, 54, 53, 55, 51, 50,
      50, 51, 97, 53, 98, 53, 100, 55, 100>>

\* The JSON parser of json.Unmarshal on the texts of the model: the object of
\* a well-formed text (optional); every other text of the model is malformed.
JsonTexts ==
    (JsonTextA1 :> JsonMarshal(EntryA1)) @@ (JsonTextC1 :> JsonMarshal(EntryC1))
        @@ (JsonTextBad1 :> JsonMarshal(EntryBad1))

JsonParse(text) ==
    IF text \in DOMAIN JsonTexts THEN Some(JsonTexts[text]) ELSE None

\* DecodeServerEntry: the entry (optional) and the error.
DecodeServerEntry(encodedServerEntry) ==
    LET hexDecodedServerEntry == hexDecodeString(encodedServerEntry)
    IN  IF hexDecodedServerEntry = None
        THEN [serverEntry |-> None, err |-> "invalid hex"]
        ELSE LET fields == SplitN(hexDecodedServerEntry[1], Space, 5)
             IN  IF Len(fields) # 5
                 THEN [serverEntry |-> None, err |-> "invalid encoded server entry"]
                 ELSE LET object == JsonParse(fields[5])
                      IN  IF object = None
                          THEN [serverEntry |-> None, err |-> "invalid JSON"]
                          ELSE [serverEntry |-> Some(JsonUnmarshal(object[1])),
                                err |-> "nil"]

\* The values of Config.TargetServerEntry in the model, and what
\* DecodeServerEntry makes of each, computed once.
TargetServerEntries ==
    {EncodedA1, EncodedC1, EncodedFourFields, EncodedBadJson,
     EncodedOddLength, EncodedNotHex}

DecodedTargets == [t \in TargetServerEntries |-> DecodeServerEntry(t)]

\* --------------------------------------------- encoded server entry lists
Newline == 10

\* strings.Split(s, sep) for a one-byte separator: every field.
Split(s, sep) == SplitN(s, sep, Len(s) + 1)

\* strings.Join(lines, sep) for a one-byte separator.
RECURSIVE Join(_, _)
Join(lines, sep) ==
    IF Len(lines) = 0 THEN <<>>
    ELSE IF Len(lines) = 1 THEN lines[1]
    ELSE lines[1] \o <<sep>> \o Join(Tail(lines), sep)

\* A list decoder that leaves out a line it cannot decode.
RECURSIVE DecodeEach_SkipUndecodable(_, _, _)
DecodeEach_SkipUndecodable(lines, k, serverEntries) ==
    IF k > Len(lines) THEN [serverEntries |-> Some(serverEntries), err |-> "nil"]
    ELSE IF Len(lines[k]) = 0 THEN DecodeEach_SkipUndecodable(lines, k + 1, serverEntries)
    ELSE LET decoded == DecodeServerEntry(lines[k])
         IN  IF decoded.err # "nil"
             THEN DecodeEach_SkipUndecodable(lines, k + 1, serverEntries)
             ELSE IF ValidateServerEntry(decoded.serverEntry[1]) # "nil"
             THEN DecodeEach_SkipUndecodable(lines, k + 1, serverEntries)
             ELSE DecodeEach_SkipUndecodable(lines, k + 1,
                                             Append(serverEntries, decoded.serverEntry[1]))

\* The loop of DecodeAndValidateServerEntryList from line k on: an empty line
\* is skipped, a decode error ends the call with nil entries, an entry that
\* does not validate is skipped, any other entry is appended.
RECURSIVE DecodeEach(_, _, _)
DecodeEach(lines, k, serverEntries) ==
    IF k > Len(lines) THEN [serverEntries |-> Some(serverEntries), err |-> "nil"]
    ELSE IF Len(lines[k]) = 0 THEN DecodeEach(lines, k + 1, serverEntries)
    ELSE LET decoded == DecodeServerEntry(lines[k])
         IN  IF decoded.err # "nil"
             THEN [serverEntries |-> None, err |-> decoded.err]
             ELSE IF ValidateServerEntry(decoded.serverEntry[1]) # "nil"
             THEN DecodeEach(lines, k + 1, serverEntries)
             ELSE DecodeEach(lines, k + 1, Append(serverEntries, decoded.serverEntry[1]))

DecodeListOutcome(encodedServerEntryList) ==
    DecodeEach(Split(encodedServerEntryList, Newline), 1, <<>>)

\* ----------------------------------------------------------------- variables
VARIABLES
    serverEntries,    \* bucket serverEntries: IpAddress -> JSON data
    rankedData,       \* bucket rankedServerEntries, value under its single key (optional)
    iterator,         \* the ServerEntryIterator of the establishing goroutine (optional)
    ret,              \* what the last completed call returned
    panicked,         \* a runtime panic has ended the process
    writes,           \* repository calls made so far (SpecIter)
    config,           \* the Config the iterator was constructed from (optional)
    resetEntries,     \* bucket serverEntries as it was at the iterator's last Reset
    storeTx,          \* the open update transaction of StoreServerEntry (optional, SpecTx)
    singleton,        \* the dataStore singleton: its sync.Once and its db handle (optional)
    calls,            \* per goroutine, the position and the err of its InitDataStore call
    engine,           \* what the bolt engine has been asked to do: opens, bucket creations
    splitTunnelRouteETags,   \* bucket splitTunnelRouteETags: region -> etag
    splitTunnelRouteData     \* bucket splitTunnelRouteData: region -> data

\* The variables of InitDataStore and of the split tunnel routes.
process == <<singleton, calls, engine>>
routes == <<splitTunnelRouteETags, splitTunnelRouteData>>

vars == <<serverEntries, rankedData, iterator, ret, panicked, writes,
          config, resetEntries, storeTx, process, routes>>

\* --------------------------------------------------------------- rank index
getRankedServerEntries(data) ==
    IF data = None THEN <<>> ELSE data[1]

setRankedServerEntries(rankedServerEntries) == Some(rankedServerEntries)

\* Go's s[lo:hi], 0-based and half-open.
Slice(s, lo, hi) == SubSeq(s, lo + 1, hi)

\* An insertion that writes the id over the element at its position.
insertRankedServerEntry_Overwrite(rankedServerEntries, serverEntryId, position) ==
    IF position >= Len(rankedServerEntries)
    THEN Append(rankedServerEntries, serverEntryId)
    ELSE LET n == Len(rankedServerEntries)
             end == IF n + 1 > rankedServerEntryCount THEN rankedServerEntryCount ELSE n
         IN  Slice(rankedServerEntries, 0, position) \o <<serverEntryId>>
                \o Slice(rankedServerEntries, position + 1, end)

\* insertRankedServerEntry, on the decoded list: the list it persists.
insertRankedServerEntry(rankedServerEntries, serverEntryId, position) ==
    IF position >= Len(rankedServerEntries)
    THEN Append(rankedServerEntries, serverEntryId)
    ELSE LET n == Len(rankedServerEntries)
             end == IF n + 1 > rankedServerEntryCount THEN rankedServerEntryCount ELSE n
         IN  Slice(rankedServerEntries, 0, position) \o <<serverEntryId>>
                \o Slice(rankedServerEntries, position, end)

\* ---------------------------------------------------------------- repository
Ranked == getRankedServerEntries(rankedData)

StoredIds == DOMAIN serverEntries

StoredEntry(ip) == JsonUnmarshal(serverEntries[ip])

Ret(op, entry, id, replace, existed, err, out) ==
    [op |-> op, entry |-> entry, id |-> id, replace |-> replace,
     existed |-> existed, err |-> err, out |-> out]

\* The update transaction of StoreServerEntry (lines 143-171), as the buckets
\* it commits: <<serverEntries, rankedData, serverEntryExists>>.
StoreTx_IgnoreReplaceFlag(entries, ranked, serverEntry, replaceIfExists) ==
    LET exists == BucketGet(entries, serverEntry.IpAddress) # None
    IN  <<BucketPut(entries, serverEntry.IpAddress, JsonMarshal(serverEntry)),
          setRankedServerEntries(
              insertRankedServerEntry(getRankedServerEntries(ranked), serverEntry.IpAddress, 1)),
          exists>>

StoreTx_RankOnNoop(entries, ranked, serverEntry, replaceIfExists) ==
    LET exists == BucketGet(entries, serverEntry.IpAddress) # None
        rank == setRankedServerEntries(
                   insertRankedServerEntry(getRankedServerEntries(ranked), serverEntry.IpAddress, 1))
    IN  IF exists /\ ~replaceIfExists
        THEN <<entries, rank, exists>>
        ELSE <<BucketPut(entries, serverEntry.IpAddress, JsonMarshal(serverEntry)), rank, exists>>

StoreTx_AtTop(entries, ranked, serverEntry, replaceIfExists) ==
    LET exists == BucketGet(entries, serverEntry.IpAddress) # None
    IN  IF exists /\ ~replaceIfExists
        THEN <<entries, ranked, exists>>
        ELSE <<BucketPut(entries, serverEntry.IpAddress, JsonMarshal(serverEntry)),
               setRankedServerEntries(
                   insertRankedServerEntry(getRankedServerEntries(ranked), serverEntry.IpAddress, 0)),
               exists>>

StoreTx(entries, ranked, serverEntry, replaceIfExists) ==
    LET exists == BucketGet(entries, serverEntry.IpAddress) # None
    IN  IF exists /\ ~replaceIfExists
        THEN <<entries, ranked, exists>>
        ELSE <<BucketPut(entries, serverEntry.IpAddress, JsonMarshal(serverEntry)),
               setRankedServerEntries(
                   insertRankedServerEntry(getRankedServerEntries(ranked), serverEntry.IpAddress, 1)),
               exists>>

\* StoreServerEntry (lines 124-180) on given buckets: the buckets it leaves,
\* the local serverEntryExists and the error it returns.  An entry that fails
\* validation never reaches the transaction.
StoreOutcome_NoValidation(entries, ranked, serverEntry, replaceIfExists) ==
    LET tx == StoreTx(entries, ranked, serverEntry, replaceIfExists)
    IN  [entries |-> tx[1], ranked |-> tx[2], existed |-> tx[3], err |-> "nil"]

StoreOutcome(entries, ranked, serverEntry, replaceIfExists) ==
    IF ValidateServerEntry(serverEntry) # "nil"
    THEN [entries |-> entries, ranked |-> ranked, existed |-> FALSE,
          err |-> "invalid server entry"]
    ELSE LET tx == StoreTx(entries, ranked, serverEntry, replaceIfExists)
         IN  [entries |-> tx[1], ranked |-> tx[2], existed |-> tx[3], err |-> "nil"]

\* One call of StoreServerEntry against the shared buckets.
StoreCall(serverEntry, replaceIfExists) ==
    LET o == StoreOutcome(serverEntries, rankedData, serverEntry, replaceIfExists)
    IN  /\ serverEntries' = o.entries
        /\ rankedData' = o.ranked
        /\ ret' = Ret("Store", Some(serverEntry), serverEntry.IpAddress,
                      replaceIfExists, o.existed, o.err, None)

StoreServerEntry(serverEntry, replaceIfExists) ==
    /\ ~panicked
    /\ StoreCall(serverEntry, replaceIfExists)
    /\ UNCHANGED <<iterator, panicked>>

PromoteServerEntry_NextToTop(ipAddress) ==
    /\ ~panicked
    /\ rankedData' = setRankedServerEntries(
            insertRankedServerEntry(getRankedServerEntries(rankedData), ipAddress, 1))
    /\ ret' = Ret("Promote", None, ipAddress, FALSE, FALSE, "nil", None)
    /\ UNCHANGED <<serverEntries, iterator, panicked>>

PromoteServerEntry(ipAddress) ==
    /\ ~panicked
    /\ rankedData' = setRankedServerEntries(
            insertRankedServerEntry(getRankedServerEntries(rankedData), ipAddress, 0))
    /\ ret' = Ret("Promote", None, ipAddress, FALSE, FALSE, "nil", None)
    /\ UNCHANGED <<serverEntries, iterator, panicked>>

\* ------------------------------------------- StoreServerEntry, step by step
\* bolt runs one update transaction at a time.  The function passed to Update
\* reads and writes the transaction's own view of the buckets; Update commits
\* the view when the function returns nil and discards it when the function
\* or the commit fails.  A View transaction reads the committed buckets.
Tx(serverEntry, replaceIfExists, entries, ranked, serverEntryExists, pc) ==
    [serverEntry |-> serverEntry, replaceIfExists |-> replaceIfExists,
     entries |-> entries, ranked |-> ranked,
     serverEntryExists |-> serverEntryExists, pc |-> pc]

\* StoreServerEntry up to the start of its transaction (lines 125-143).
StoreBegin(serverEntry, replaceIfExists) ==
    /\ ~panicked
    /\ storeTx = None
    /\ IF ValidateServerEntry(serverEntry) # "nil"
       THEN /\ ret' = Ret("Store", Some(serverEntry), serverEntry.IpAddress,
                          replaceIfExists, FALSE, "invalid server entry", None)
            /\ UNCHANGED storeTx
       ELSE /\ storeTx' = Some(Tx(serverEntry, replaceIfExists, serverEntries, rankedData,
                             FALSE, "get"))
            /\ UNCHANGED ret
    /\ UNCHANGED <<serverEntries, rankedData, iterator, panicked>>

\* The transaction after its next statement: the lookup of lines 145-154, the
\* Put of line 160 or the rank insertion of line 165.
StoreStatement(t) ==
    LET id == t.serverEntry.IpAddress
        exists == BucketGet(t.entries, id) # None
    IN  CASE t.pc = "get" ->
                 [t EXCEPT !.serverEntryExists = exists,
                           !.pc = IF exists /\ ~t.replaceIfExists THEN "commit" ELSE "put"]
          [] t.pc = "put" ->
                 [t EXCEPT !.entries = BucketPut(t.entries, id, JsonMarshal(t.serverEntry)),
                           !.pc = "rank"]
          [] t.pc = "rank" ->
                 [t EXCEPT !.ranked = setRankedServerEntries(
                                          insertRankedServerEntry(
                                              getRankedServerEntries(t.ranked), id, 1)),
                           !.pc = "commit"]

StoreStep_WriteThrough ==
    /\ storeTx # None
    /\ storeTx[1].pc \in {"get", "put", "rank"}
    /\ storeTx' = Some(StoreStatement(storeTx[1]))
    /\ serverEntries' = StoreStatement(storeTx[1]).entries
    /\ rankedData' = StoreStatement(storeTx[1]).ranked
    /\ UNCHANGED <<iterator, ret, panicked>>

StoreStep ==
    /\ storeTx # None
    /\ storeTx[1].pc \in {"get", "put", "rank"}
    /\ storeTx' = Some(StoreStatement(storeTx[1]))
    /\ UNCHANGED <<serverEntries, rankedData, iterator, ret, panicked>>

\* The function has returned nil: Update commits (line 171) and
\* StoreServerEntry returns nil (lines 172-179).
StoreCommit ==
    /\ storeTx # None
    /\ storeTx[1].pc = "commit"
    /\ serverEntries' = storeTx[1].entries
    /\ rankedData' = storeTx[1].ranked
    /\ storeTx' = None
    /\ ret' = Ret("Store", Some(storeTx[1].serverEntry), storeTx[1].serverEntry.IpAddress,
                  storeTx[1].replaceIfExists, storeTx[1].serverEntryExists, "nil", None)
    /\ UNCHANGED <<iterator, panicked>>

\* A Put of the function (lines 160-168, 248-251) or the commit fails: nothing
\* is committed and StoreServerEntry returns the error (lines 172-174).
StoreFail ==
    /\ storeTx # None
    /\ storeTx[1].pc \in {"put", "rank", "commit"}
    /\ storeTx' = None
    /\ ret' = Ret("Store", Some(storeTx[1].serverEntry), storeTx[1].serverEntry.IpAddress,
                  storeTx[1].replaceIfExists, storeTx[1].serverEntryExists, "update failed", None)
    /\ UNCHANGED <<serverEntries, rankedData, iterator, panicked>>

\* CountServerEntries (lines 535-552): a scan of the committed entry bucket.
CountServerEntries(region, protocol) ==
    /\ ~panicked
    /\ LET matching ==
               {key \in DOMAIN serverEntries :
                   LET serverEntry == JsonUnmarshal(serverEntries[key])
                   IN  /\ region = "" \/ serverEntry.Region = region
                       /\ protocol = NoProtocol
                             \/ serverEntrySupportsProtocol(serverEntry, protocol)}
       IN  ret' = Ret("Count", None, None, FALSE, FALSE, "nil",
                      Some(Cardinality(matching)))
    /\ UNCHANGED <<serverEntries, rankedData, iterator, panicked>>

\* ------------------------------------------------------- StoreServerEntries
Swap(list, i, j) ==
    [k \in 1..Len(list) |-> IF k = i + 1 THEN list[j + 1]
                            ELSE IF k = j + 1 THEN list[i + 1] ELSE list[k]]

\* The shuffle loop of lines 189-192 from its (0-based) index on: every list
\* the draws of rand.Intn(index + 1) can produce.
RECURSIVE ShuffleAll(_, _)
ShuffleAll(list, index) ==
    IF index <= 0 THEN {list}
    ELSE UNION {ShuffleAll(Swap(list, index, swapIndex), index - 1) :
                    swapIndex \in 0..index}

RECURSIVE StoreEach_ContinueAfterError(_, _, _, _)
StoreEach_ContinueAfterError(entries, ranked, list, replaceIfExists) ==
    IF list = <<>> THEN [entries |-> entries, ranked |-> ranked, err |-> "nil"]
    ELSE LET o == StoreOutcome(entries, ranked, Head(list), replaceIfExists)
             rest == StoreEach_ContinueAfterError(o.entries, o.ranked, Tail(list),
                                                  replaceIfExists)
         IN  IF o.err # "nil"
             THEN [entries |-> rest.entries, ranked |-> rest.ranked, err |-> o.err]
             ELSE rest

\* The loop of lines 194-199 on given buckets: one StoreServerEntry per entry,
\* each its own transaction, ending at the first error.
RECURSIVE StoreEach(_, _, _, _)
StoreEach(entries, ranked, list, replaceIfExists) ==
    IF list = <<>> THEN [entries |-> entries, ranked |-> ranked, err |-> "nil"]
    ELSE LET o == StoreOutcome(entries, ranked, Head(list), replaceIfExists)
         IN  IF o.err # "nil"
             THEN [entries |-> o.entries, ranked |-> o.ranked, err |-> o.err]
             ELSE StoreEach(o.entries, o.ranked, Tail(list), replaceIfExists)

\* ReportAvailableRegions (lines 556-579): the regions handed to
\* NoticeAvailableEgressRegions, in no particular order.
ReportAvailableRegions(entries) ==
    {JsonUnmarshal(entries[key]).Region : key \in DOMAIN entries} \ {""}

\* StoreServerEntries (lines 186-206), called while no other goroutine writes.
\* Its return records the list it was given, the order in which it called
\* StoreServerEntry, and the regions notice when it issued one.
StoreServerEntries(list, replaceIfExists) ==
    /\ ~panicked
    /\ \E shuffled \in ShuffleAll(list, Len(list) - 1) :
           LET o == StoreEach(serverEntries, rankedData, shuffled, replaceIfExists)
           IN  /\ serverEntries' = o.entries
               /\ rankedData' = o.ranked
               /\ ret' = Ret("StoreMany", Some(list), None, replaceIfExists, FALSE, o.err,
                             Some([order |-> shuffled,
                                   regions |-> IF o.err = "nil"
                                               THEN Some(ReportAvailableRegions(o.entries))
                                               ELSE None]))
    /\ UNCHANGED <<iterator, panicked>>

\* ----------------------------------------------------------------- iterator
\* A set of keys in descending byte order.
RECURSIVE SortDescending(_)
SortDescending(keys) ==
    IF keys = {} THEN <<>>
    ELSE LET last == CHOOSE k \in keys : \A o \in keys \ {k} : BytesLess(o, k)
         IN  <<last>> \o SortDescending(keys \ {last})

\* The descending order of every key a bucket of the model can hold, computed once.
AllKeysDescending == SortDescending(ValidIps)

\* The keys of a bucket from cursor.Last() through cursor.Prev().
KeysDescending(keys) == SelectSeq(AllKeysDescending, LAMBDA k : k \in keys)

\* Lines 390-414: the ranked ids, then every other key in descending order.
Snapshot(entries, ranked) ==
    LET serverEntryIds == getRankedServerEntries(ranked)
    IN  serverEntryIds \o
        SelectSeq(KeysDescending(DOMAIN entries),
                  LAMBDA key : ~Contains(serverEntryIds, key))

\* The loop of lines 419-422 from its (0-based) index i on: every outcome the
\* draws of rand.Intn(i) can produce.  rand.Intn(0) panics.
RECURSIVE ShuffleTail(_, _, _)
ShuffleTail(ids, i, shuffleHeadLength) ==
    IF i <= shuffleHeadLength - 1 THEN {[ids |-> ids, panic |-> FALSE]}
    ELSE IF i = 0 THEN {[ids |-> ids, panic |-> TRUE]}
    ELSE UNION {ShuffleTail(Swap(ids, i, j), i - 1, shuffleHeadLength) :
                    j \in 0..(i - 1)}

Iter(region, protocol, shuffleHeadLength, ids, index) ==
    [region |-> region, protocol |-> protocol,
     shuffleHeadLength |-> shuffleHeadLength,
     serverEntryIds |-> ids, serverEntryIndex |-> index,
     isTargetServerEntryIterator |-> FALSE,
     hasNextTargetServerEntry |-> FALSE,
     targetServerEntry |-> None]

\* Close (lines 431-434).
Closed(it) == [it EXCEPT !.serverEntryIds = <<>>, !.serverEntryIndex = 0]

ResetTo_KeepCursor(it, op) ==
    IF it.isTargetServerEntryIterator
    THEN /\ iterator' = Some([Closed(it) EXCEPT !.hasNextTargetServerEntry = TRUE])
         /\ ret' = Ret(op, None, None, FALSE, FALSE, "nil", None)
         /\ UNCHANGED panicked
    ELSE
    LET ids == Snapshot(serverEntries, rankedData)
    IN  \E o \in ShuffleTail(ids, Len(ids) - 1, it.shuffleHeadLength) :
            /\ panicked' = o.panic
            /\ iterator' = IF ~o.panic
                           THEN Some([it EXCEPT !.serverEntryIds = o.ids])
                           ELSE IF op = "New" THEN None ELSE Some(Closed(it))
            /\ ret' = Ret(op, None, None, FALSE, FALSE,
                          IF o.panic THEN "panic" ELSE "nil", None)

\* Reset (lines 360-428) of iterator `it`, called by the constructor ("New")
\* or by the owner ("Reset"): the iterator and the panic flag it leaves.
ResetTo(it, op) ==
    IF it.isTargetServerEntryIterator
    THEN /\ iterator' = Some([Closed(it) EXCEPT !.hasNextTargetServerEntry = TRUE])
         /\ ret' = Ret(op, None, None, FALSE, FALSE, "nil", None)
         /\ UNCHANGED panicked
    ELSE
    LET ids == Snapshot(serverEntries, rankedData)
    IN  \E o \in ShuffleTail(ids, Len(ids) - 1, it.shuffleHeadLength) :
            /\ panicked' = o.panic
            \* a panic unwinds before line 424; the constructor then returns nothing
            /\ iterator' = IF ~o.panic
                           THEN Some([it EXCEPT !.serverEntryIds = o.ids,
                                                !.serverEntryIndex = 0])
                           ELSE IF op = "New" THEN None ELSE Some(Closed(it))
            /\ ret' = Ret(op, None, None, FALSE, FALSE,
                          IF o.panic THEN "panic" ELSE "nil", None)

\* NewServerEntryIterator (lines 312-331), repository-backed variant.
NewServerEntryIterator(region, protocol, shuffleHeadLength) ==
    /\ ~panicked
    /\ ResetTo(Iter(region, protocol, shuffleHeadLength, <<>>, 0), "New")
    /\ UNCHANGED <<serverEntries, rankedData>>

targetError_RegionOnly(c) ==
    LET d == DecodedTargets[c.TargetServerEntry]
    IN  IF d.err # "nil" THEN d.err
        ELSE IF c.EgressRegion # "" /\ d.serverEntry[1].Region # c.EgressRegion
        THEN "TargetServerEntry does not support EgressRegion"
        ELSE "nil"

\* The error of newTargetServerEntryIterator for a configuration.
targetError(c) ==
    LET d == DecodedTargets[c.TargetServerEntry]
    IN  IF d.err # "nil" THEN d.err
        ELSE IF c.EgressRegion # "" /\ d.serverEntry[1].Region # c.EgressRegion
        THEN "TargetServerEntry does not support EgressRegion"
        ELSE IF /\ c.TunnelProtocol # NoProtocol
                /\ ~Contains(d.serverEntry[1].Capabilities,
                             TrimSuffixOSSH(c.TunnelProtocol))
        THEN "TargetServerEntry does not support TunnelProtocol"
        ELSE "nil"

\* NewServerEntryIterator with a TargetServerEntry configured (lines 315-317)
\* and newTargetServerEntryIterator (lines 334-356).
newTargetServerEntryIterator(c) ==
    /\ ~panicked
    /\ c.TargetServerEntry # <<>>
    /\ iterator' =
           IF targetError(c) # "nil" THEN None
           ELSE Some([Iter("", NoProtocol, 0, <<>>, 0) EXCEPT
                          !.isTargetServerEntryIterator = TRUE,
                          !.hasNextTargetServerEntry = TRUE,
                          !.targetServerEntry =
                              DecodedTargets[c.TargetServerEntry].serverEntry])
    /\ ret' = Ret("NewTarget", None, None, FALSE, FALSE, targetError(c), None)
    /\ UNCHANGED <<serverEntries, rankedData, panicked>>

Reset ==
    /\ ~panicked
    /\ iterator # None
    /\ ResetTo(iterator[1], "Reset")
    /\ UNCHANGED <<serverEntries, rankedData>>

Close ==
    /\ ~panicked
    /\ iterator # None
    /\ iterator' = Some(Closed(iterator[1]))
    /\ ret' = Ret("Close", None, None, FALSE, FALSE, "nil", None)
    /\ UNCHANGED <<serverEntries, rankedData, panicked>>

\* A normalization that adds the domain whatever the addresses are.
MakeCompatibleServerEntry_AlwaysAppend(serverEntry) ==
    IF serverEntry.MeekFrontingDomain # ""
    THEN [serverEntry EXCEPT !.MeekFrontingAddresses =
                                 Append(@, serverEntry.MeekFrontingDomain)]
    ELSE serverEntry

\* MakeCompatibleServerEntry (lines 500-507).
MakeCompatibleServerEntry(serverEntry) ==
    IF Len(serverEntry.MeekFrontingAddresses) = 0 /\ serverEntry.MeekFrontingDomain # ""
    THEN [serverEntry EXCEPT !.MeekFrontingAddresses = <<serverEntry.MeekFrontingDomain>>]
    ELSE serverEntry

\* The filter of lines 486-487.
Matches_RegionOnly(it, serverEntry) ==
    it.region = "" \/ serverEntry.Region = it.region

Matches(it, serverEntry) ==
    /\ it.region = "" \/ serverEntry.Region = it.region
    /\ it.protocol = NoProtocol \/ serverEntrySupportsProtocol(serverEntry, it.protocol)

\* A loop that leaves the cursor on the candidate it returns.
RECURSIVE NextLoop_NoAdvance(_, _, _)
NextLoop_NoAdvance(it, index, entries) ==
    IF index >= Len(it.serverEntryIds)
    THEN [index |-> index, id |-> None, found |-> None, err |-> "nil"]
    ELSE LET serverEntryId == it.serverEntryIds[index + 1]
             data == BucketGet(entries, serverEntryId)
         IN  IF data = None
             THEN [index |-> index + 1, id |-> serverEntryId, found |-> None,
                   err |-> "Unexpected missing server entry"]
             ELSE IF Matches(it, JsonUnmarshal(data[1]))
             THEN [index |-> index, id |-> serverEntryId,
                   found |-> Some(JsonUnmarshal(data[1])), err |-> "nil"]
             ELSE NextLoop_NoAdvance(it, index + 1, entries)

\* The loop of Next (lines 456-491) from cursor `index` on, reading bucket
\* `entries`: the cursor it leaves, the record it stops at (optional) and the error.
RECURSIVE NextLoop(_, _, _)
NextLoop(it, index, entries) ==
    IF index >= Len(it.serverEntryIds)
    THEN [index |-> index, id |-> None, found |-> None, err |-> "nil"]
    ELSE LET serverEntryId == it.serverEntryIds[index + 1]
             data == BucketGet(entries, serverEntryId)
         IN  IF data = None
             THEN [index |-> index + 1, id |-> serverEntryId, found |-> None,
                   err |-> "Unexpected missing server entry"]
             ELSE IF Matches(it, JsonUnmarshal(data[1]))
             THEN [index |-> index + 1, id |-> serverEntryId,
                   found |-> Some(JsonUnmarshal(data[1])), err |-> "nil"]
             ELSE NextLoop(it, index + 1, entries)

NextTarget_NeverExhausted(it) ==
    LET serverEntry == MakeCompatibleServerEntry(it.targetServerEntry[1])
    IN  /\ iterator' = Some([it EXCEPT !.targetServerEntry = Some(serverEntry)])
        /\ ret' = Ret("Next", None, serverEntry.IpAddress, FALSE, FALSE, "nil",
                      Some(serverEntry))

\* Next of a pinned-target iterator (lines 445-451).  MakeCompatibleServerEntry
\* writes to the entry it is given, which is the iterator's own.
NextTarget(it) ==
    IF it.hasNextTargetServerEntry
    THEN LET serverEntry == MakeCompatibleServerEntry(it.targetServerEntry[1])
         IN  /\ iterator' = Some([it EXCEPT !.hasNextTargetServerEntry = FALSE,
                                            !.targetServerEntry = Some(serverEntry)])
             /\ ret' = Ret("Next", None, serverEntry.IpAddress, FALSE, FALSE, "nil",
                           Some(serverEntry))
    ELSE /\ iterator' = iterator
         /\ ret' = Ret("Next", None, None, FALSE, FALSE, "nil", None)

Next_Resnapshot ==
    /\ ~panicked
    /\ iterator # None
    /\ IF iterator[1].isTargetServerEntryIterator
       THEN NextTarget(iterator[1])
       ELSE
       LET it == [iterator[1] EXCEPT
                     !.serverEntryIds = Snapshot(serverEntries, rankedData)]
           o == NextLoop(it, it.serverEntryIndex, serverEntries)
           moved == [it EXCEPT !.serverEntryIndex = o.index]
       IN  /\ iterator' = Some(IF o.err # "nil" THEN Closed(moved) ELSE moved)
           /\ ret' = Ret("Next", None, o.id, FALSE, FALSE, o.err,
                         IF o.found = None THEN None
                         ELSE Some(MakeCompatibleServerEntry(o.found[1])))
    /\ UNCHANGED <<serverEntries, rankedData, panicked>>

Next_ReadsResetData ==
    /\ ~panicked
    /\ iterator # None
    /\ IF iterator[1].isTargetServerEntryIterator
       THEN NextTarget(iterator[1])
       ELSE
       LET it == iterator[1]
           o == NextLoop(it, it.serverEntryIndex, resetEntries)
           moved == [it EXCEPT !.serverEntryIndex = o.index]
       IN  /\ iterator' = Some(IF o.err # "nil" THEN Closed(moved) ELSE moved)
           /\ ret' = Ret("Next", None, o.id, FALSE, FALSE, o.err,
                         IF o.found = None THEN None
                         ELSE Some(MakeCompatibleServerEntry(o.found[1])))
    /\ UNCHANGED <<serverEntries, rankedData, panicked>>

Next_KeepOpenOnError ==
    /\ ~panicked
    /\ iterator # None
    /\ IF iterator[1].isTargetServerEntryIterator
       THEN NextTarget(iterator[1])
       ELSE
       LET it == iterator[1]
           o == NextLoop(it, it.serverEntryIndex, serverEntries)
           moved == [it EXCEPT !.serverEntryIndex = o.index]
       IN  /\ iterator' = Some(moved)
           /\ ret' = Ret("Next", None, o.id, FALSE, FALSE, o.err,
                         IF o.found = None THEN None
                         ELSE Some(MakeCompatibleServerEntry(o.found[1])))
    /\ UNCHANGED <<serverEntries, rankedData, panicked>>

\* Next (lines 438-494).  An error closes the iterator (the deferred function
\* of lines 439-443).
Next ==
    /\ ~panicked
    /\ iterator # None
    /\ IF iterator[1].isTargetServerEntryIterator
       THEN NextTarget(iterator[1])
       ELSE
       LET it == iterator[1]
           o == NextLoop(it, it.serverEntryIndex, serverEntries)
           moved == [it EXCEPT !.serverEntryIndex = o.index]
       IN  /\ iterator' = Some(IF o.err # "nil" THEN Closed(moved) ELSE moved)
           /\ ret' = Ret("Next", None, o.id, FALSE, FALSE, o.err,
                         IF o.found = None THEN None
                         ELSE Some(MakeCompatibleServerEntry(o.found[1])))
    /\ UNCHANGED <<serverEntries, rankedData, panicked>>

\* ------------------------------------------ DecodeAndValidateServerEntryList
\* DecodeAndValidateServerEntryList (serverEntry.go, lines 153-174): its return
\* records the list it was given, the entries (nil on error) and the error.
DecodeAndValidateServerEntryList(encodedServerEntryList) ==
    /\ ~panicked
    /\ LET o == DecodeListOutcome(encodedServerEntryList)
       IN  ret' = Ret("DecodeList", Some(encodedServerEntryList), None, FALSE, FALSE,
                      o.err, o.serverEntries)
    /\ UNCHANGED <<serverEntries, rankedData, iterator, panicked>>

\* ---------------------------------------------------------------- handshake
\* The encoded entries a handshake response can list in the model, and what
\* DecodeServerEntry makes of each, computed once.
DiscoveredServerEntries ==
    {<<>>, EncodedA1, EncodedC1, EncodedBad1, EncodedFourFields}

DecodedDiscovered == [t \in DiscoveredServerEntries |-> DecodeServerEntry(t)]

\* A decode loop that leaves out an entry it cannot decode.
RECURSIVE decodedServerEntries_SkipUndecodable(_, _, _)
decodedServerEntries_SkipUndecodable(encodedServerList, k, decoded) ==
    IF k > Len(encodedServerList) THEN [serverEntries |-> Some(decoded), err |-> "nil"]
    ELSE LET d == DecodedDiscovered[encodedServerList[k]]
         IN  IF d.err # "nil" \/ ValidateServerEntry(d.serverEntry[1]) # "nil"
             THEN decodedServerEntries_SkipUndecodable(encodedServerList, k + 1, decoded)
             ELSE decodedServerEntries_SkipUndecodable(encodedServerList, k + 1,
                                                       Append(decoded, d.serverEntry[1]))

\* The loop of doHandshakeRequest over handshakeConfig.EncodedServerList
\* (serverApi.go, lines 217-229) from entry k on: a decode error ends the
\* handshake, an entry that does not validate is skipped.
RECURSIVE decodedServerEntries(_, _, _)
decodedServerEntries(encodedServerList, k, decoded) ==
    IF k > Len(encodedServerList) THEN [serverEntries |-> Some(decoded), err |-> "nil"]
    ELSE LET d == DecodedDiscovered[encodedServerList[k]]
         IN  IF d.err # "nil"
             THEN [serverEntries |-> None, err |-> d.err]
             ELSE IF ValidateServerEntry(d.serverEntry[1]) # "nil"
             THEN decodedServerEntries(encodedServerList, k + 1, decoded)
             ELSE decodedServerEntries(encodedServerList, k + 1,
                                       Append(decoded, d.serverEntry[1]))

\* doHandshakeRequest from the decode loop to the return of StoreServerEntries
\* (serverApi.go, lines 214-237), StoreServerEntries included.  Its return
\* records the encoded list, the entries handed to StoreServerEntries and the
\* order in which they were stored.
doHandshakeRequest(encodedServerList) ==
    /\ ~panicked
    /\ LET d == decodedServerEntries(encodedServerList, 1, <<>>)
       IN  IF d.err # "nil"
           THEN /\ ret' = Ret("Handshake", Some(encodedServerList), None, TRUE, FALSE,
                              d.err, None)
                /\ UNCHANGED <<serverEntries, rankedData>>
           ELSE \E shuffled \in ShuffleAll(d.serverEntries[1], Len(d.serverEntries[1]) - 1) :
                    LET o == StoreEach(serverEntries, rankedData, shuffled, TRUE)
                    IN  /\ serverEntries' = o.entries
                        /\ rankedData' = o.ranked
                        /\ ret' = Ret("Handshake", Some(encodedServerList), None, TRUE,
                                      FALSE, o.err,
                                      Some([list |-> d.serverEntries[1],
                                            order |-> shuffled]))
    /\ UNCHANGED <<iterator, panicked>>

\* ------------------------------------------------------ split tunnel routes
\* bolt refuses a value of more than MaxValueSize bytes ((1 << 31) - 2 in the
\* engine).  The model evaluates the limit at a small value so that a value
\* over the limit is a short tuple; nothing below depends on the value other
\* than through this name.
MaxValueSize == 4

\* bolt's Bucket.Put in an update transaction: the bucket it leaves and the
\* error.  An empty key and an oversized value are refused.
Put(bucket, key, value) ==
    IF key = "" THEN [bucket |-> bucket, err |-> "key required"]
    ELSE IF Len(value) > MaxValueSize THEN [bucket |-> bucket, err |-> "value too large"]
    ELSE [bucket |-> BucketPut(bucket, key, value), err |-> "nil"]

\* SetSplitTunnelRoutes (lines 601-617).  The function passed to Update puts
\* the etag, assigns the error of the second Put to the same err and returns
\* it; Update commits when the function returns nil, and the commit itself may
\* fail.  Its return records the arguments.
SetSplitTunnelRoutes(region, etag, data) ==
    /\ ~panicked
    /\ LET etags == Put(splitTunnelRouteETags, region, etag)
           datas == Put(splitTunnelRouteData, region, data)
           err == datas.err
       IN  \E committed \in BOOLEAN :
               IF err = "nil" /\ committed
               THEN /\ splitTunnelRouteETags' = etags.bucket
                    /\ splitTunnelRouteData' = datas.bucket
                    /\ ret' = Ret("SetSplitTunnelRoutes",
                                  Some([region |-> region, etag |-> etag, data |-> data]),
                                  None, FALSE, FALSE, "nil", None)
               ELSE /\ UNCHANGED <<splitTunnelRouteETags, splitTunnelRouteData>>
                    /\ ret' = Ret("SetSplitTunnelRoutes",
                                  Some([region |-> region, etag |-> etag, data |-> data]),
                                  None, FALSE, FALSE,
                                  IF err # "nil" THEN err ELSE "commit failed", None)
    /\ UNCHANGED <<serverEntries, rankedData, iterator, panicked>>

\* ------------------------------------------------------------ InitDataStore
Goroutines == 1..MaxCallers

\* One InitDataStore call of a goroutine: where it stands, its named return
\* value err, and the handle bolt.Open gave it.
Call(pc, err, db) == [pc |-> pc, err |-> err, db |-> db]

\* The singleton before any InitDataStore call, and after a successful one.
Singleton(done, m, db) == [init |-> [done |-> done, m |-> m], db |-> db]

\* func InitDataStore(config *Config) (err error): err starts as nil.
InitDataStore(g) ==
    /\ calls[g].pc \in {"idle", "returned"}
    /\ calls' = [calls EXCEPT ![g] = Call("Do", "nil", None)]
    /\ UNCHANGED <<singleton, engine>>

\* singleton.init.Do, the check made without the mutex: when the Once is done
\* the call goes straight to its return statement.
OnceDo(g) ==
    /\ calls[g].pc = "Do"
    /\ calls' = [calls EXCEPT ![g].pc =
                    IF singleton.init.done THEN "return" ELSE "Lock"]
    /\ UNCHANGED <<singleton, engine>>

OnceLock_NoMutex(g) ==
    /\ calls[g].pc = "Lock"
    /\ IF singleton.init.done
       THEN /\ calls' = [calls EXCEPT ![g].pc = "return"]
            /\ UNCHANGED singleton
       ELSE /\ calls' = [calls EXCEPT ![g].pc = "Open"]
            /\ singleton' = [singleton EXCEPT !.init.m = Some(g)]
    /\ UNCHANGED engine

\* singleton.init.Do, under the mutex: the goroutine waits while another one
\* holds it, checks done again, and runs the function when it is still unset.
OnceLock(g) ==
    /\ calls[g].pc = "Lock"
    /\ singleton.init.m = None
    /\ IF singleton.init.done
       THEN /\ calls' = [calls EXCEPT ![g].pc = "return"]
            /\ UNCHANGED singleton
       ELSE /\ calls' = [calls EXCEPT ![g].pc = "Open"]
            /\ singleton' = [singleton EXCEPT !.init.m = Some(g)]
    /\ UNCHANGED engine

\* db, err = bolt.Open(...): the engine opens the file or fails; on failure
\* err is set and the function passed to Do returns.
Open(g) ==
    /\ calls[g].pc = "Open"
    /\ engine' = [engine EXCEPT !.opens = @ + 1]
    /\ \E opened \in BOOLEAN :
           calls' = [calls EXCEPT ![g] =
                        IF opened
                        THEN Call("Update", "nil", Some("db"))
                        ELSE Call("Done", "initDataStore failed to open database", None)]
    /\ UNCHANGED singleton

\* err = db.Update(... CreateBucketIfNotExists ...): on failure err is set and
\* singleton.db stays nil; on success singleton.db = db.
CreateBuckets(g) ==
    /\ calls[g].pc = "Update"
    /\ engine' = [engine EXCEPT !.bucketCreations = @ + 1]
    /\ \E created \in BOOLEAN :
           IF created
           THEN /\ singleton' = [singleton EXCEPT !.db = calls[g].db]
                /\ calls' = [calls EXCEPT ![g].pc = "Done"]
           ELSE /\ calls' = [calls EXCEPT ![g] =
                               Call("Done", "initDataStore failed to create buckets", @.db)]
                /\ UNCHANGED singleton

\* The function passed to Do has returned: the Once is done, whatever the
\* function did, and the mutex is released.
OnceDone(g) ==
    /\ calls[g].pc = "Done"
    /\ singleton' = [singleton EXCEPT !.init = [done |-> TRUE, m |-> None]]
    /\ calls' = [calls EXCEPT ![g].pc = "return"]
    /\ UNCHANGED engine

\* return err
InitReturn(g) ==
    /\ calls[g].pc = "return"
    /\ calls' = [calls EXCEPT ![g].pc = "returned"]
    /\ UNCHANGED <<singleton, engine>>

\* checkInitDataStore does not panic.
checkInitDataStore == singleton.db # None

\* checkInitDataStore panics: a repository call made while singleton.db is nil.
NotInitializedPanic ==
    /\ ~panicked
    /\ singleton.db = None
    /\ panicked' = TRUE
    /\ UNCHANGED <<serverEntries, rankedData, iterator, ret>>

\* ------------------------------------------------------------ specification
\* The configurations of a process: EgressRegion, TunnelProtocol, TunnelPoolSize.
\* Every iterator of one process is constructed from the same configuration.
Filters == {<<"", NoProtocol>>, <<"US", NoProtocol>>, <<"", TUNNEL_PROTOCOL_FRONTED_MEEK>>}
Configs ==
    {[EgressRegion |-> f[1], TunnelProtocol |-> f[2], TunnelPoolSize |-> h,
      TargetServerEntry |-> <<>>] :
        f \in Filters, h \in 0..MaxHead}

\* The configurations with a TargetServerEntry.
TargetFilters ==
    {<<"", NoProtocol>>, <<"US", NoProtocol>>, <<"CA", NoProtocol>>,
     <<"", TUNNEL_PROTOCOL_FRONTED_MEEK>>, <<"", TUNNEL_PROTOCOL_OBFUSCATED_SSH>>,
     <<"US", TUNNEL_PROTOCOL_UNFRONTED_MEEK>>}
TargetConfigs ==
    {[EgressRegion |-> f[1], TunnelProtocol |-> f[2], TunnelPoolSize |-> 1,
      TargetServerEntry |-> t] :
        f \in TargetFilters, t \in TargetServerEntries}


RECURSIVE SeqsUpTo(_, _)
SeqsUpTo(S, n) ==
    IF n = 0 THEN {<<>>}
    ELSE LET shorter == SeqsUpTo(S, n - 1)
         IN  shorter \cup {Append(q, x) : q \in shorter, x \in S}

\* The lists handed to StoreServerEntries: up to MaxBatch distinct entries.
\* StoreServerEntries shuffles its list into every order before it stores, so
\* each set of entries is handed over in one order, that of BatchOrder.
BatchEntries == {EntryA2, EntryB1, EntryBad1}
BatchOrder == <<EntryA2, EntryBad1, EntryB1>>
BatchPosition(e) == CHOOSE k \in 1..Len(BatchOrder) : BatchOrder[k] = e
Batches ==
    {l \in SeqsUpTo(BatchEntries, MaxBatch) :
        \A i, j \in 1..Len(l) : i < j => BatchPosition(l[i]) < BatchPosition(l[j])}

Init ==
    /\ serverEntries = EmptyBucket
    /\ rankedData = None
    /\ iterator = None
    /\ ret = Ret("Init", None, None, FALSE, FALSE, "nil", None)
    /\ panicked = FALSE
    /\ writes = 0
    /\ config = None
    /\ resetEntries = EmptyBucket
    /\ storeTx = None
    /\ singleton = Singleton(TRUE, None, Some("db"))
    /\ calls = [g \in Goroutines |->
                  IF g = 1 THEN Call("returned", "nil", Some("db"))
                  ELSE Call("idle", "nil", None)]
    /\ engine = [opens |-> 1, bucketCreations |-> 1]
    /\ splitTunnelRouteETags = EmptyBucket
    /\ splitTunnelRouteData = EmptyBucket

\* The process before any InitDataStore call: the zero value of the singleton.
ProcessStart ==
    /\ serverEntries = EmptyBucket
    /\ rankedData = None
    /\ iterator = None
    /\ ret = Ret("Init", None, None, FALSE, FALSE, "nil", None)
    /\ panicked = FALSE
    /\ writes = 0
    /\ config = None
    /\ resetEntries = EmptyBucket
    /\ storeTx = None
    /\ singleton = Singleton(FALSE, None, None)
    /\ calls = [g \in Goroutines |-> Call("idle", "nil", None)]
    /\ engine = [opens |-> 0, bucketCreations |-> 0]
    /\ splitTunnelRouteETags = EmptyBucket
    /\ splitTunnelRouteData = EmptyBucket

\* The repository under any sequence of Store, StoreMany and Promote calls.
RepoNext ==
    \/ \E e \in AllEntries, r \in BOOLEAN :
           StoreServerEntry(e, r) /\ UNCHANGED <<process, routes, writes, config, resetEntries, storeTx>>
    \/ \E ip \in ValidIps :
           PromoteServerEntry(ip) /\ UNCHANGED <<process, routes, writes, config, resetEntries, storeTx>>
    \/ \E l \in Batches, r \in BOOLEAN :
           StoreServerEntries(l, r) /\ UNCHANGED <<process, routes, writes, config, resetEntries, storeTx>>

Spec == Init /\ [][RepoNext]_vars

\* One more repository call, while fewer than `budget` have been made.
Budget(budget) ==
    /\ writes < budget
    /\ writes' = writes + 1

\* The repository and the iterator of the establishing goroutine: up to
\* `budget` Store and Promote calls, by any goroutine, interleaved with the
\* calls of the iterator's owner.  The iterator is constructed once and Reset
\* for every later cycle.
IterNextWithin(budget) ==
    \/ \E e \in ValidEntries :
           Budget(budget) /\ StoreServerEntry(e, TRUE) /\ UNCHANGED <<process, routes, config, resetEntries, storeTx>>
    \/ \E ip \in ValidIps :
           Budget(budget) /\ PromoteServerEntry(ip) /\ UNCHANGED <<process, routes, config, resetEntries, storeTx>>
    \/ \E c \in Configs :
           /\ iterator = None
           /\ NewServerEntryIterator(c.EgressRegion, c.TunnelProtocol, c.TunnelPoolSize)
           /\ config' = Some(c)
           /\ resetEntries' = serverEntries
           /\ UNCHANGED <<process, routes, writes, storeTx>>
    \/ Reset /\ resetEntries' = serverEntries /\ UNCHANGED <<process, routes, writes, config, storeTx>>
    \/ Close /\ UNCHANGED <<process, routes, writes, config, resetEntries, storeTx>>
    \/ Next /\ UNCHANGED <<process, routes, writes, config, resetEntries, storeTx>>

IterNext == IterNextWithin(MaxWrites)

SpecIter == Init /\ [][IterNext]_vars

\* The same with one more call, enough to store three entries and promote one.
IterDeepNext == IterNextWithin(MaxWrites + 1)

SpecIterDeep == Init /\ [][IterDeepNext]_vars

\* A process configured with a TargetServerEntry: its iterator, and up to
\* MaxWrites Store and Promote calls by other goroutines.
TargetNext ==
    \/ \E e \in ValidEntries :
           Budget(MaxWrites) /\ StoreServerEntry(e, TRUE) /\ UNCHANGED <<process, routes, config, resetEntries, storeTx>>
    \/ \E ip \in ValidIps :
           Budget(MaxWrites) /\ PromoteServerEntry(ip) /\ UNCHANGED <<process, routes, config, resetEntries, storeTx>>
    \/ \E c \in TargetConfigs :
           /\ config = None
           /\ newTargetServerEntryIterator(c)
           /\ config' = Some(c)
           /\ UNCHANGED <<process, routes, writes, resetEntries, storeTx>>
    \/ Reset /\ UNCHANGED <<process, routes, writes, config, resetEntries, storeTx>>
    \/ Close /\ UNCHANGED <<process, routes, writes, config, resetEntries, storeTx>>
    \/ Next /\ UNCHANGED <<process, routes, writes, config, resetEntries, storeTx>>

SpecTarget == Init /\ [][TargetNext]_vars

\* Up to MaxWrites StoreServerEntry calls, one statement at a time, with the
\* readers of another goroutine between the statements: an iterator without
\* filter and CountServerEntries.
TxEntries == {EntryA1, EntryA2, EntryB1, EntryBad1}
TxNext ==
    \/ \E e \in TxEntries, r \in BOOLEAN :
           Budget(MaxWrites) /\ StoreBegin(e, r) /\ UNCHANGED <<process, routes, config, resetEntries>>
    \/ StoreStep /\ UNCHANGED <<process, routes, writes, config, resetEntries>>
    \/ StoreCommit /\ UNCHANGED <<process, routes, writes, config, resetEntries>>
    \/ StoreFail /\ UNCHANGED <<process, routes, writes, config, resetEntries>>
    \/ /\ iterator = None
       /\ NewServerEntryIterator("", NoProtocol, MaxHead)
       /\ UNCHANGED <<process, routes, writes, config, resetEntries, storeTx>>
    \/ Reset /\ UNCHANGED <<process, routes, writes, config, resetEntries, storeTx>>
    \/ Next /\ UNCHANGED <<process, routes, writes, config, resetEntries, storeTx>>
    \/ CountServerEntries("", NoProtocol) /\ UNCHANGED <<process, routes, writes, config, resetEntries, storeTx>>

SpecTx == Init /\ [][TxNext]_vars

\* Goroutines that call InitDataStore, any number of times and in any
\* interleaving of their statements, and that store an entry once a call of
\* theirs has returned.  A panic ends the process.
store == <<serverEntries, rankedData, iterator, ret, panicked, writes,
           config, resetEntries, storeTx>>
InitNext ==
    \/ \E g \in Goroutines :
           ~panicked /\ InitDataStore(g) /\ UNCHANGED <<store, routes>>
    \/ \E g \in Goroutines :
           ~panicked /\ OnceDo(g) /\ UNCHANGED <<store, routes>>
    \/ \E g \in Goroutines :
           ~panicked /\ OnceLock(g) /\ UNCHANGED <<store, routes>>
    \/ \E g \in Goroutines :
           ~panicked /\ engine.opens <= MaxCallers /\ Open(g) /\ UNCHANGED <<store, routes>>
    \/ \E g \in Goroutines :
           ~panicked /\ engine.bucketCreations <= MaxCallers /\ CreateBuckets(g)
               /\ UNCHANGED <<store, routes>>
    \/ \E g \in Goroutines :
           ~panicked /\ OnceDone(g) /\ UNCHANGED <<store, routes>>
    \/ \E g \in Goroutines :
           ~panicked /\ InitReturn(g) /\ UNCHANGED <<store, routes>>
    \/ \E g \in Goroutines, e \in {EntryA1, EntryB1} :
           /\ calls[g].pc = "returned"
           /\ checkInitDataStore
           /\ StoreServerEntry(e, TRUE)
           /\ UNCHANGED <<writes, config, resetEntries, storeTx, process, routes>>
    \/ \E g \in Goroutines :
           /\ calls[g].pc = "returned"
           /\ NotInitializedPanic
           /\ UNCHANGED <<writes, config, resetEntries, storeTx, process, routes>>

SpecInit == ProcessStart /\ [][InitNext]_vars

\* The encoded lists of the model: up to MaxLines lines, each one empty, the
\* encoding of a valid entry, the encoding of an entry with a malformed
\* IpAddress, or a text that does not decode.
Lines == {<<>>, EncodedA1, EncodedC1, EncodedBad1, EncodedFourFields}
LineLists == SeqsUpTo(Lines, MaxLines)
EncodedLists == [lines \in LineLists |-> Join(lines, Newline)]

\* One call of the list decoder, on any list of the model; the decoder reads
\* nothing but its argument.
DecodeNext ==
    \E lines \in LineLists :
        /\ Budget(1)
        /\ DecodeAndValidateServerEntryList(EncodedLists[lines])
        /\ UNCHANGED <<config, resetEntries, storeTx, process, routes>>

SpecDecode == Init /\ [][DecodeNext]_vars

\* A process with either kind of iterator: up to MaxWrites Store calls by any
\* goroutine, and the iterator its configuration gives, Reset and read in any
\* order.
CompatNext ==
    \/ \E e \in ValidEntries :
           Budget(MaxWrites) /\ StoreServerEntry(e, TRUE)
               /\ UNCHANGED <<config, resetEntries, storeTx, process, routes>>
    \/ \E c \in Configs :
           /\ config = None
           /\ NewServerEntryIterator(c.EgressRegion, c.TunnelProtocol, c.TunnelPoolSize)
           /\ config' = Some(c)
           /\ resetEntries' = serverEntries
           /\ UNCHANGED <<writes, storeTx, process, routes>>
    \/ \E c \in TargetConfigs :
           /\ config = None
           /\ newTargetServerEntryIterator(c)
           /\ config' = Some(c)
           /\ UNCHANGED <<writes, resetEntries, storeTx, process, routes>>
    \/ Reset /\ resetEntries' = serverEntries
             /\ UNCHANGED <<writes, config, storeTx, process, routes>>
    \/ Next /\ UNCHANGED <<writes, config, resetEntries, storeTx, process, routes>>

SpecCompat == Init /\ [][CompatNext]_vars

\* The handshake of a session, on the repository that up to MaxWrites Store
\* calls of other goroutines have filled; its response lists up to MaxBatch
\* encoded entries.  The run is followed up to the return of the handshake.
HandshakeNext ==
    \/ \E e \in {EntryA2, EntryB1, EntryC1} :
           /\ ret.op # "Handshake"
           /\ Budget(MaxWrites)
           /\ StoreServerEntry(e, TRUE)
           /\ UNCHANGED <<config, resetEntries, storeTx, process, routes>>
    \/ \E l \in SeqsUpTo(DiscoveredServerEntries, MaxBatch) :
           /\ ret.op # "Handshake"
           /\ doHandshakeRequest(l)
           /\ UNCHANGED <<writes, config, resetEntries, storeTx, process, routes>>

SpecHandshake == Init /\ [][HandshakeNext]_vars

\* The regions, etags and route data of the model: short byte strings and
\* one of more than MaxValueSize bytes.
Regions == {"", "US", "CA"}
Oversized == [i \in 1..(MaxValueSize + 1) |-> 120]
ETags == {<<101, 49>>, <<101, 50>>, Oversized}
RouteData == {<<114, 49>>, <<114, 50>>, Oversized}

\* Any sequence of SetSplitTunnelRoutes calls.
RoutesNext ==
    \E region \in Regions, etag \in ETags, data \in RouteData :
        /\ SetSplitTunnelRoutes(region, etag, data)
        /\ UNCHANGED <<writes, config, resetEntries, storeTx, process>>

SpecRoutes == Init /\ [][RoutesNext]_vars

\* ------------------------------------------------------------------- claims
IsStoreReturn(r) == r.op = "Store"

\* C1: a Store of a valid entry whose IpAddress already has a record leaves the
\* record as it was when replaceIfExists is false, and makes the record equal
\* to the entry stored when replaceIfExists is true.
C1_ReplaceSemantics ==
    [][(IsStoreReturn(ret') /\ ret'.err = "nil" /\ ret'.id \in DOMAIN serverEntries)
        => IF ret'.replace
           THEN JsonUnmarshal(serverEntries'[ret'.id]) = ret'.entry[1]
           ELSE serverEntries'[ret'.id] = serverEntries[ret'.id]]_vars

\* A Store with replaceIfExists = false has just offered a different entry for
\* a stored IpAddress, and the record is still the older one.
C1_Witness ==
    /\ IsStoreReturn(ret)
    /\ ret.existed
    /\ ~ret.replace
    /\ ret.id \in StoredIds
    /\ StoredEntry(ret.id) # ret.entry[1]

\* C2: the persisted Rank Index never holds more than rankedServerEntryCount ids.
C2_RankCap == Len(Ranked) <= rankedServerEntryCount

\* C3: the Rank Index holds each IpAddress at most once.
C3_UniqueMembership ==
    \A i, j \in 1..Len(Ranked) : i # j => Ranked[i] # Ranked[j]

\* C6: no Store or StoreMany call changes the element at index 0 of a
\* non-empty Rank Index.
C6_TopStableUnderStore ==
    [][(ret'.op \in {"Store", "StoreMany"} /\ Ranked # <<>>)
        => Ranked'[1] = Ranked[1]]_vars

\* A Store has just ranked its id next to top, under a different top id.
C6_Witness ==
    /\ IsStoreReturn(ret)
    /\ ret.err = "nil"
    /\ ~ret.existed \/ ret.replace
    /\ Len(Ranked) >= 3
    /\ Ranked[2] = ret.id
    /\ Ranked[1] # ret.id

\* C7: right after Promote(ip) the element at index 0 of the Rank Index is ip.
C7_PromoteAtTop ==
    ret.op = "Promote" => (Ranked # <<>> /\ Ranked[1] = ret.id)

\* A Promote has just displaced another id from the top of a full index.
C7_Witness ==
    /\ ret.op = "Promote"
    /\ Len(Ranked) > rankedServerEntryCount
    /\ Ranked[2] # ret.id

\* C8: a Store with replaceIfExists = false of an IpAddress that has a record
\* returns no error and changes neither the entry bucket nor the Rank Index.
C8_NoOpStore ==
    [][(IsStoreReturn(ret') /\ ~ret'.replace /\ ret'.id \in DOMAIN serverEntries)
        => /\ ret'.err = "nil"
           /\ serverEntries' = serverEntries
           /\ rankedData' = rankedData]_vars

\* A Store with replaceIfExists = false has just found its IpAddress stored.
C8_Witness ==
    /\ IsStoreReturn(ret)
    /\ ret.existed
    /\ ~ret.replace
    /\ ret.err = "nil"

Min(a, b) == IF a < b THEN a ELSE b

\* C4: right after the constructor or a Reset, the first h candidates are the
\* first h ids of the unshuffled list (the ranked ids, then the other keys in
\* descending order), in the same order.
C4_HeadDeterminism ==
    (ret.op \in {"New", "Reset"} /\ ret.err = "nil")
        => LET it == iterator[1]
               unshuffled == Snapshot(serverEntries, rankedData)
           IN  \A k \in 1..Min(it.shuffleHeadLength, Len(unshuffled)) :
                   it.serverEntryIds[k] = unshuffled[k]

\* C5: with A, B, C stored in that order and B then promoted (Rank Index
\* B, A, C, B), the first Next of a newly constructed iterator with no region
\* or protocol filter and head length >= 1 returns B.
C5_PromotedFirst ==
    [][(/\ ret.op = "New"
        /\ ret.err = "nil"
        /\ ret'.op = "Next"
        /\ iterator[1].region = ""
        /\ iterator[1].protocol = NoProtocol
        /\ iterator[1].shuffleHeadLength >= 1
        /\ Ranked = <<IpB, IpA, IpC, IpB>>
        /\ StoredIds = {IpA, IpB, IpC})
        => (ret'.out # None /\ ret'.out[1].IpAddress = IpB)]_vars

\* The capability each tunnel protocol requires: its name without -OSSH.
RequiredCapability(protocol) ==
    CASE protocol = TUNNEL_PROTOCOL_FRONTED_MEEK -> CapFrontedMeek
      [] protocol = TUNNEL_PROTOCOL_UNFRONTED_MEEK -> CapUnfrontedMeek
      [] protocol = TUNNEL_PROTOCOL_OBFUSCATED_SSH -> CapOSSH
      [] protocol = TUNNEL_PROTOCOL_SSH -> CapSSH

\* C10: an entry returned by Next has the capability the iterator's protocol
\* requires, when a protocol is configured, and the iterator's region, when a
\* region is configured.
C10_Filtering ==
    (ret.op = "Next" /\ ret.out # None)
        => LET it == iterator[1]
               e == ret.out[1]
           IN  /\ it.protocol # NoProtocol =>
                      \E i \in 1..Len(e.Capabilities) :
                          e.Capabilities[i] = RequiredCapability(it.protocol)
               /\ it.region # "" => e.Region = it.region

\* Next has just returned a matching entry after skipping a stored candidate
\* that does not match the configured filter.
C10_Witness ==
    /\ ret.op = "Next"
    /\ ret.out # None
    /\ iterator[1].protocol # NoProtocol \/ iterator[1].region # ""
    /\ iterator[1].serverEntryIndex >= 2
    /\ \E k \in 1..(iterator[1].serverEntryIndex - 1) :
           /\ iterator[1].serverEntryIds[k] \in StoredIds
           /\ ~Matches(iterator[1], StoredEntry(iterator[1].serverEntryIds[k]))

\* How often id x occurs in list s, and the ids of a list.
Occurrences(s, x) == Cardinality({k \in 1..Len(s) : s[k] = x})

Range(s) == {s[k] : k \in 1..Len(s)}

\* C11: right after the constructor or a Reset, the candidate list holds the
\* ids of the Rank Index as often as the Rank Index does and every other stored
\* id once, and nothing else; every stored id is a candidate; and the ids
\* after the first h positions are exactly the candidates that are not among
\* the first h.
C11_CandidateComposition ==
    (ret.op \in {"New", "Reset"} /\ ret.err = "nil")
        => LET it == iterator[1]
               ids == it.serverEntryIds
               h == Min(it.shuffleHeadLength, Len(ids))
               head == {ids[k] : k \in 1..h}
               tail == {ids[k] : k \in (h + 1)..Len(ids)}
           IN  /\ \A x \in Range(ids) \cup Range(Ranked) \cup StoredIds :
                      Occurrences(ids, x) = IF x \in Range(Ranked) THEN Occurrences(Ranked, x) ELSE 1
               /\ StoredIds \subseteq Range(ids)
               /\ tail = Range(ids) \ head

\* C12: every id of the Rank Index has a record in the entry bucket, and no
\* Next call returns the missing-entry error.
C12_RankedAreStored ==
    /\ Range(Ranked) \subseteq StoredIds
    /\ ret.op = "Next" => ret.err = "nil"

\* The candidate at which a Next call of iterator `it` stops (optional): the
\* first one from the cursor on that has no record or whose record passes the
\* filter.
StopsAt(it) ==
    LET ids == it.serverEntryIds
        stops == {k \in (it.serverEntryIndex + 1)..Len(ids) :
                     IF ids[k] \in StoredIds THEN Matches(it, StoredEntry(ids[k])) ELSE TRUE}
    IN  IF stops = {} THEN None
        ELSE Some(CHOOSE k \in stops : \A o \in stops : k <= o)

IsClosed(it) == it.serverEntryIds = <<>> /\ it.serverEntryIndex = 0

\* C13: a Next call that stops at a candidate with no record returns an error;
\* a Next call that returns an error returns no entry and leaves the candidate
\* list empty and the cursor at 0; from then on every Next call returns no
\* entry and no error, and only the constructor or a Reset refills the list.
C13_MissingCandidateCloses ==
    [][(iterator # None /\ ret'.op \notin {"New", "Reset"})
        => LET it == iterator[1]
               stop == StopsAt(it)
           IN  /\ iterator' # None
               /\ IsClosed(it) => IsClosed(iterator'[1])
               /\ ret'.op = "Next" =>
                    /\ IF stop = None THEN TRUE
                       ELSE it.serverEntryIds[stop[1]] \notin StoredIds => ret'.err # "nil"
                    /\ ret'.err # "nil" => (ret'.out = None /\ IsClosed(iterator'[1]))
                    /\ IsClosed(it) => (ret'.out = None /\ ret'.err = "nil")]_vars

\* Next has just found the record of a snapshotted id missing, in a repository
\* that holds other records, and has closed the iterator.
C13_Witness ==
    /\ ret.op = "Next"
    /\ ret.err = "Unexpected missing server entry"
    /\ ret.id \notin StoredIds
    /\ StoredIds # {}
    /\ IsClosed(iterator[1])

PinnedEntry(c) ==
    IF c.TargetServerEntry = EncodedA1 THEN EntryA1 ELSE EntryC1

WellFormedTarget(c) == c.TargetServerEntry \in {EncodedA1, EncodedC1}

\* C15: a pinned-target iterator is constructed armed; a Next call of an armed
\* iterator returns the pinned entry and disarms it, a Next call of a disarmed
\* one returns no entry and no error; Reset arms it and no other call does;
\* whatever the buckets hold, Next returns nothing but the pinned entry.
C15_PinnedTarget ==
    [][/\ (ret'.op = "NewTarget" /\ ret'.err = "nil")
            => IF iterator' = None THEN FALSE
               ELSE /\ iterator'[1].isTargetServerEntryIterator
                    /\ iterator'[1].hasNextTargetServerEntry
       /\ (iterator # None /\ ret'.op # "NewTarget")
            => LET it == iterator[1]
                   armed == it.hasNextTargetServerEntry
                   armedAfter == iterator'[1].hasNextTargetServerEntry
               IN  /\ it.isTargetServerEntryIterator
                   /\ ret'.op = "Next" =>
                        /\ ret'.err = "nil"
                        /\ ret'.out = IF armed
                                      THEN Some(MakeCompatibleServerEntry(PinnedEntry(config[1])))
                                      ELSE None
                        /\ ~armedAfter
                   /\ ret'.op = "Reset" => (ret'.err = "nil" /\ armedAfter)
                   /\ ret'.op \notin {"Next", "Reset"} => armedAfter = armed]_vars

\* A disarmed pinned-target iterator has just returned no entry, while the
\* entry bucket holds a record under the pinned IpAddress.
C15_Witness ==
    /\ ret.op = "Next"
    /\ ret.out = None
    /\ ret.err = "nil"
    /\ iterator # None
    /\ iterator[1].isTargetServerEntryIterator
    /\ PinnedEntry(config[1]).IpAddress \in StoredIds

\* A configuration's region or protocol requirement that entry e does not meet.
ViolatesRequirement(c, e) ==
    \/ c.EgressRegion # "" /\ e.Region # c.EgressRegion
    \/ /\ c.TunnelProtocol # NoProtocol
       /\ RequiredCapability(c.TunnelProtocol) \notin Range(e.Capabilities)

\* C16: constructing a pinned-target iterator from a configuration whose
\* region or protocol requirement the pinned entry does not meet returns an
\* error and no iterator; no entry returned by a pinned-target iterator
\* violates the requirement of the configuration it was constructed from.
C16_TargetValidated ==
    /\ []((ret.op = "Next" /\ ret.out # None)
            => ~ViolatesRequirement(config[1], ret.out[1]))
    /\ [][(/\ ret'.op = "NewTarget"
           /\ config = None
           /\ WellFormedTarget(config'[1])
           /\ ViolatesRequirement(config'[1], PinnedEntry(config'[1])))
            => (ret'.err # "nil" /\ iterator' = None)]_vars

\* The constructor has just refused a pinned entry in the configured region
\* that lacks the capability of the configured protocol.
C16_Witness ==
    /\ ret.op = "NewTarget"
    /\ ret.err = "TargetServerEntry does not support TunnelProtocol"
    /\ iterator = None
    /\ config[1].EgressRegion = PinnedEntry(config[1]).Region
    /\ config[1].EgressRegion # ""

C18_StoreAtomic ==
    /\ [](Range(Ranked) = StoredIds)
    /\ [][/\ (serverEntries' # serverEntries \/ rankedData' # rankedData)
               => /\ ret'.op = "Store"
                  /\ ret'.err = "nil"
                  /\ ret'.id \in DOMAIN serverEntries'
                  /\ JsonUnmarshal(serverEntries'[ret'.id]) = ret'.entry[1]
                  /\ Ranked'[IF Ranked = <<>> THEN 1 ELSE 2] = ret'.id
                  /\ Len(Ranked') = Len(Ranked) + 1
          /\ (ret'.op = "Store" /\ ret'.err = "nil" /\ storeTx # None /\ storeTx' = None)
               => <<serverEntries', rankedData', ret'.existed>>
                      = StoreTx(serverEntries, rankedData, ret'.entry[1], ret'.replace)
          /\ (ret'.op = "Store" /\ ret'.err # "nil")
               => (serverEntries' = serverEntries /\ rankedData' = rankedData)
          /\ (ret'.op \in {"New", "Reset"} /\ ret'.err = "nil")
               => Range(iterator'[1].serverEntryIds) = Range(Ranked')
          /\ ret'.op = "Next" => ret'.err = "nil"
          /\ ret'.op = "Count" => ret'.out[1] = Cardinality(Range(Ranked'))]_vars

\* A transaction has put the record of a new entry and not yet inserted its
\* rank; CountServerEntries, the last call to return, has counted the records
\* of the non-empty committed bucket, which does not hold the new one.
C18_Witness ==
    /\ storeTx # None
    /\ storeTx[1].pc = "rank"
    /\ storeTx[1].serverEntry.IpAddress \in DOMAIN storeTx[1].entries
    /\ storeTx[1].serverEntry.IpAddress \notin StoredIds
    /\ StoredIds # {}
    /\ ret.op = "Count"
    /\ ret.out[1] = Cardinality(StoredIds)

\* C19: a Store or Promote call leaves the iterator as it is; a Next call
\* that returns no error leaves the candidate list as it is and moves the
\* cursor forward only, and the entry it returns is the record of the
\* candidate just before the new cursor.
C19_OrderFixedAtReset ==
    [][iterator # None
        => LET it == iterator[1]
           IN  /\ ret'.op \in {"Store", "Promote"} => iterator' = iterator
               /\ (ret'.op = "Next" /\ ret'.err = "nil")
                    => /\ iterator'[1].serverEntryIds = it.serverEntryIds
                       /\ iterator'[1].serverEntryIndex >= it.serverEntryIndex
                       /\ ret'.out # None
                            => /\ iterator'[1].serverEntryIndex > it.serverEntryIndex
                               /\ ret'.id = it.serverEntryIds[iterator'[1].serverEntryIndex]]_vars

\* Next has just returned the last candidate of a pass of two or more, while
\* the entry bucket holds an id stored after the Reset, which the pass lacks.
C19_Witness ==
    /\ ret.op = "Next"
    /\ ret.out # None
    /\ Len(iterator[1].serverEntryIds) >= 2
    /\ iterator[1].serverEntryIndex = Len(iterator[1].serverEntryIds)
    /\ StoredIds \ Range(iterator[1].serverEntryIds) # {}
    /\ DOMAIN resetEntries # StoredIds

\* C20: the entry a Next call returns is the record its candidate has in the
\* entry bucket at the time of the call, and that record passes the region
\* and protocol tests; the records, at that time, of the candidates the call
\* skips do not.
C20_CurrentDataOnFetch ==
    [][(iterator # None /\ ret'.op = "Next" /\ ret'.out # None)
        => LET it == iterator[1]
               current == JsonUnmarshal(serverEntries[ret'.id])
               passes(e) ==
                   /\ it.region # "" => e.Region = it.region
                   /\ it.protocol # NoProtocol
                        => RequiredCapability(it.protocol) \in Range(e.Capabilities)
           IN  /\ ret'.out[1] = MakeCompatibleServerEntry(current)
               /\ passes(current)
               /\ \A k \in (it.serverEntryIndex + 1)..(iterator'[1].serverEntryIndex - 1) :
                      ~passes(JsonUnmarshal(serverEntries[it.serverEntryIds[k]]))]_vars

\* Next has just returned an entry whose record was overwritten after the
\* Reset; the record it had at the Reset does not pass the iterator's filter.
C20_Witness ==
    /\ ret.op = "Next"
    /\ ret.out # None
    /\ ret.id \in DOMAIN resetEntries
    /\ resetEntries[ret.id] # serverEntries[ret.id]
    /\ ~Matches(iterator[1], JsonUnmarshal(resetEntries[ret.id]))


\* C21: under any interleaving of InitDataStore calls the engine is opened at
\* most once and the buckets are created at most once, at most one goroutine
\* is inside the function passed to Do, and a call reaches its return
\* statement only when the one initialization attempt has finished.
C21_InitOnce ==
    /\ engine.opens <= 1
    /\ engine.bucketCreations <= 1
    /\ Cardinality({g \in Goroutines : calls[g].pc \in {"Open", "Update", "Done"}}) <= 1
    /\ \A g \in Goroutines :
           calls[g].pc \in {"return", "returned"} =>
               /\ singleton.init.done
               /\ engine.opens = 1
               /\ \A h \in Goroutines : calls[h].pc \notin {"Open", "Update", "Done"}

\* One goroutine has returned from the initialization it ran, while another,
\* which found the Once not done, is still about to take the mutex.
C21_Witness ==
    \E g, h \in Goroutines :
        /\ g # h
        /\ calls[g].pc = "returned"
        /\ calls[h].pc = "Lock"
        /\ singleton.init.done
        /\ engine.opens = 1

\* C29: when an InitDataStore call has returned a nil error, singleton.db is
\* set and no repository call has panicked in checkInitDataStore.
C29_NilMeansInitialized ==
    (\E g \in Goroutines : calls[g].pc = "returned" /\ calls[g].err = "nil") =>
        (singleton.db # None /\ ~panicked)

\* The entry each decodable line of the model encodes.
LineEntry ==
    (EncodedA1 :> EntryA1) @@ (EncodedC1 :> EntryC1) @@ (EncodedBad1 :> EntryBad1)

\* C22: DecodeAndValidateServerEntryList returns the entries of the non-empty
\* lines that decode and have a valid IpAddress, in the order of their lines;
\* when a non-empty line does not decode it returns an error and no entries,
\* whatever the earlier lines were.
C22_BatchDecode ==
    \A lines \in LineLists :
        (ret.op = "DecodeList" /\ ret.entry = Some(EncodedLists[lines])) =>
            LET nonEmpty == SelectSeq(lines, LAMBDA l : l # <<>>)
                decodes == \A i \in 1..Len(nonEmpty) : nonEmpty[i] \in DOMAIN LineEntry
                valid(l) == LineEntry[l].IpAddress \in ValidIps
                kept == SelectSeq(nonEmpty, valid)
            IN  IF decodes
                THEN /\ ret.err = "nil"
                     /\ ret.out = Some([i \in 1..Len(kept) |-> LineEntry[kept[i]]])
                ELSE /\ ret.err # "nil"
                     /\ ret.out = None

\* A valid line, a line with a malformed IpAddress and another valid line:
\* the two valid entries come back, in that order.
C22_Witness ==
    /\ ret.op = "DecodeList"
    /\ ret.entry = Some(EncodedLists[<<EncodedA1, EncodedBad1, EncodedC1>>])
    /\ ret.out = Some(<<EntryA1, EntryC1>>)
    /\ ret.err = "nil"

\* C23: an entry returned by Next, of either iterator, is its source (the
\* record in the entry bucket, or the configured target entry) in every field
\* but MeekFrontingAddresses; it has addresses when it has a MeekFrontingDomain;
\* its addresses are the domain alone when the source has a domain and no
\* addresses, and the source's otherwise; normalizing it again changes
\* nothing; and the call leaves the entry bucket as it was.
C23_CompatibleEntry ==
    [][(iterator # None /\ ret'.op = "Next" /\ ret'.out # None)
        => LET returned == ret'.out[1]
               source ==
                   IF iterator[1].isTargetServerEntryIterator
                   THEN DecodedTargets[config[1].TargetServerEntry].serverEntry[1]
                   ELSE JsonUnmarshal(serverEntries[ret'.id])
           IN  /\ returned = [source EXCEPT !.MeekFrontingAddresses =
                                                returned.MeekFrontingAddresses]
               /\ returned.MeekFrontingDomain # ""
                    => Len(returned.MeekFrontingAddresses) > 0
               /\ (Len(source.MeekFrontingAddresses) = 0 /\ source.MeekFrontingDomain # "")
                    => returned.MeekFrontingAddresses = <<source.MeekFrontingDomain>>
               /\ Len(source.MeekFrontingAddresses) > 0 => returned = source
               /\ source.MeekFrontingDomain = "" => returned = source
               /\ MakeCompatibleServerEntry(returned) = returned
               /\ serverEntries' = serverEntries]_vars

\* Next has returned a stored entry that has a domain and no addresses: the
\* returned addresses are the domain, the record still has none.
C23_Witness ==
    /\ ret.op = "Next"
    /\ ret.out # None
    /\ ret.id \in StoredIds
    /\ StoredEntry(ret.id).MeekFrontingDomain = "x.example.com"
    /\ StoredEntry(ret.id).MeekFrontingAddresses = <<>>
    /\ ret.out[1].MeekFrontingAddresses = <<"x.example.com">>
    /\ ~iterator[1].isTargetServerEntryIterator

\* C24: a handshake whose encoded list holds an entry that does not decode
\* returns an error and leaves both buckets as they were, wherever in the list
\* that entry is; any other handshake returns nil, hands StoreServerEntries
\* the entries with a valid IpAddress in list order, and afterwards the record
\* of each of them is that entry, whether or not its IpAddress had a record,
\* while every other record is as it was.
C24_Handshake ==
    [][ret'.op = "Handshake"
        => LET encoded == ret'.entry[1]
               decodes == \A i \in 1..Len(encoded) : encoded[i] \in DOMAIN LineEntry
               valid(l) == LineEntry[l].IpAddress \in ValidIps
               kept == SelectSeq(encoded, valid)
               discovered == [i \in 1..Len(kept) |-> LineEntry[kept[i]]]
           IN  IF decodes
               THEN /\ ret'.err = "nil"
                    /\ ret'.replace
                    /\ ret'.out[1].list = discovered
                    /\ DOMAIN serverEntries' =
                           DOMAIN serverEntries \cup {e.IpAddress : e \in Range(discovered)}
                    /\ \A e \in Range(discovered) :
                           serverEntries'[e.IpAddress] = JsonMarshal(e)
                    /\ \A ip \in DOMAIN serverEntries :
                           ip \notin {e.IpAddress : e \in Range(discovered)}
                               => serverEntries'[ip] = serverEntries[ip]
               ELSE /\ ret'.err # "nil"
                    /\ ret'.out = None
                    /\ serverEntries' = serverEntries
                    /\ rankedData' = rankedData]_vars

\* A handshake that listed an entry for 9.9.9.9 and an entry with a malformed
\* IpAddress has replaced the record another goroutine had stored for 9.9.9.9.
C24_Witness ==
    /\ ret.op = "Handshake"
    /\ ret.entry = Some(<<EncodedA1, EncodedBad1>>)
    /\ ret.err = "nil"
    /\ writes >= 1
    /\ StoredIds = {IpA}
    /\ serverEntries[IpA] = JsonMarshal(EntryA1)

\* A step in which Store or Promote has called insertRankedServerEntry, the
\* position it passed and the id it inserted.
InsertedRank ==
    \/ ret'.op = "Promote"
    \/ ret'.op = "Store" /\ ret'.err = "nil" /\ (~ret'.existed \/ ret'.replace)

InsertPosition == IF ret'.op = "Promote" THEN 0 ELSE 1

\* C25: an insertion at a position below the length n of the list L leaves
\* L[0:position] ++ [id] ++ L[position:end] with end = min(n, cap - 1), which
\* has at most cap ids; an insertion at a position of n or more appends the id.
C25_ShiftBranch ==
    [][InsertedRank
        => LET L == Ranked
               n == Len(L)
               position == InsertPosition
               end == Min(n, rankedServerEntryCount - 1)
           IN  IF position < n
               THEN /\ Ranked' = Slice(L, 0, position) \o <<ret'.id>>
                                    \o Slice(L, position, end)
                    /\ Len(Ranked') <= rankedServerEntryCount
               ELSE Ranked' = Append(L, ret'.id)]_vars

\* C26: a rank insertion by Store or Promote leaves the new id at its position
\* and, around it, a prefix of the list as it was, in the same order: the ids
\* it removes are trailing ones, and it removes none when the list was
\* shorter than rankedServerEntryCount.
C26_EvictionOnlyAtCap ==
    [][InsertedRank
        => LET L == Ranked
               n == Len(L)
               R == Ranked'
               k == Min(InsertPosition, n) + 1
               others == SubSeq(R, 1, k - 1) \o SubSeq(R, k + 1, Len(R))
           IN  /\ Len(R) >= k
               /\ R[k] = ret'.id
               /\ Len(others) <= n
               /\ others = SubSeq(L, 1, Len(others))
               /\ n < rankedServerEntryCount => others = L]_vars

\* A Promote has just dropped the last id of a full Rank Index: the entry of
\* 10.1.1.1 is stored and no longer ranked.
C26_Witness ==
    /\ ret.op = "Promote"
    /\ IpB \in StoredIds
    /\ IpB \notin Range(Ranked)
    /\ Len(Ranked) > rankedServerEntryCount

\* C27: a SetSplitTunnelRoutes call that returns nil leaves the etag and the
\* route data of its region equal to its arguments; a call that returns an
\* error leaves both buckets as they were.
C27_RoutesTogether ==
    [][ret'.op = "SetSplitTunnelRoutes"
        => LET a == ret'.entry[1]
           IN  IF ret'.err = "nil"
               THEN /\ BucketGet(splitTunnelRouteETags', a.region) = Some(a.etag)
                    /\ BucketGet(splitTunnelRouteData', a.region) = Some(a.data)
               ELSE UNCHANGED <<splitTunnelRouteETags, splitTunnelRouteData>>]_vars

\* C28: while the entry bucket is as it was at the iterator's last Reset, the
\* id of an entry that Next returns is at no earlier position of the candidate
\* list, so no entry is returned twice in one pass.
C28_NoRepeatedCandidates ==
    [][(iterator # None /\ ret'.op = "Next" /\ ret'.out # None
            /\ resetEntries = serverEntries)
        => LET it == iterator[1]
           IN  \A k \in 1..(iterator'[1].serverEntryIndex - 1) :
                   it.serverEntryIds[k] # ret'.id]_vars

\* C30: no constructor or Reset call of a repository-backed iterator, whatever
\* its head length and the content of the buckets, ends in the runtime panic
\* of a draw from an empty range.
C30_ShuffleDrawDefined ==
    ret.op \in {"New", "Reset"} => (ret.err # "panic" /\ ~panicked)

\* C31: the cursor of an iterator is never beyond its candidate list.  A Next
\* call with the cursor at the end returns at once and changes nothing; any
\* other Next call either returns an error and closes the iterator, or keeps
\* the candidate list and moves the cursor forward by at least one, up to the
\* end when it returns no entry.  No other call but the constructor, Reset
\* and Close moves the cursor or changes the list.  The candidates left,
\* len(list) - cursor, thus shrink with every entry returned, so a pass
\* returns at most len(list) entries before the end-of-cycle signal or an error.
C31_IterationTerminates ==
    /\ [](iterator # None
            => iterator[1].serverEntryIndex <= Len(iterator[1].serverEntryIds))
    /\ [][(iterator # None /\ ~iterator[1].isTargetServerEntryIterator
              /\ ret'.op \notin {"New", "Reset", "Close"})
           => LET it == iterator[1]
                  n == Len(it.serverEntryIds)
                  i == it.serverEntryIndex
                  after == iterator'[1]
              IN  /\ iterator' # None
                  /\ ret'.op # "Next" => iterator' = iterator
                  /\ (ret'.op = "Next" /\ i >= n)
                       => (ret'.out = None /\ ret'.err = "nil" /\ iterator' = iterator)
                  /\ (ret'.op = "Next" /\ i < n /\ ret'.err # "nil")
                       => (ret'.out = None /\ after = Closed(it))
                  /\ (ret'.op = "Next" /\ i < n /\ ret'.err = "nil")
                       => /\ after.serverEntryIds = it.serverEntryIds
                          /\ after.serverEntryIndex >= i + 1
                          /\ after.serverEntryIndex <= n
                          /\ n - after.serverEntryIndex < n - i
                          /\ ret'.out = None => after.serverEntryIndex = n]_vars

\* A pass over two or more candidates has reached the end-of-cycle signal with
\* a filter that a stored candidate of the pass does not pass.
C31_Witness ==
    /\ ret.op = "Next"
    /\ ret.out = None
    /\ ret.err = "nil"
    /\ Len(iterator[1].serverEntryIds) >= 2
    /\ iterator[1].serverEntryIndex = Len(iterator[1].serverEntryIds)
    /\ \E id \in Range(iterator[1].serverEntryIds) \cap StoredIds :
           ~Matches(iterator[1], StoredEntry(id))
    /\ \E id \in Range(iterator[1].serverEntryIds) \cap StoredIds :
           Matches(iterator[1], StoredEntry(id))
=============================================================================
